---- MODULE Spec2Model ----
(***************************************************************************)
(* A model of the hue-gateway: the v2 idempotency engine (dispatcher       *)
(* claim / replay / completion and the housekeeping sweep) and the v2      *)
(* event bus with its SSE stream generator.                                *)
(*                                                                         *)
(* The program runs on one asyncio event loop: code between two awaits is  *)
(* one atomic step.  Every awaited store statement is its own step; the    *)
(* store is one connection, so every statement sees every earlier one.     *)
(***************************************************************************)
EXTENDS Integers, Sequences, FiniteSets, TLC

\* ------------------------------------------------------------------ bounds
\* Number of v2 dispatches in flight.
NDispatch == 2
\* Number of times the wall clock is advanced.
MaxTicks == 1
\* cleanup_expired's max_rows (5000 in cleanup_loop), instantiated small so
\* that the hard cap is reached with the model's handful of keys.
MaxRows == 1
\* ttl_seconds handed to mark_in_progress / mark_completed (15 * 60).
TtlSeconds == 900
\* Number of v2 event streams that are opened.
NStreams == 2
\* Number of tasks that take events from the hub and publish them on the bus.
NForwarders == 2
\* Number of events the bridge sync publishes on the hub.
MaxEvents == 2
\* Cap on the bus cursor.
MaxCursor == 5
\* V2EventBus's replay_maxlen (500 in create_app), instantiated small.
ReplayMaxlen == 2
\* maxsize of a bus subscriber's queue (200), instantiated small.
QueueMaxsize == 2
\* EventHub's max_queue_size (200), instantiated small.
MaxQueueSize == 2
\* Cap on the monotonic clock of the rate limiter, in ticks.
MaxMonotonic == 4
\* Token units per token: the bucket counts in fractions of a token.
TokenUnit == 2
\* The limiter's rate, in token units per tick (RATE_LIMIT_RPS).
RateUnits == 1
\* The limiter's burst, in tokens (RATE_LIMIT_BURST).
Burst == 2
\* Milliseconds per tick of the monotonic clock.
MsPerTick == 500
\* The candidates list_name_candidates returns for one resource type.
MaxCandidates == 6
\* The length of args.path of clipv2.request, in symbols.
MaxPathLen == 5
\* retry_max_attempts (RETRY_MAX_ATTEMPTS)
RetryMaxAttempts == 3
\* The steps of one actions.batch.
MaxSteps == 3
\* The changes the appliance makes to the resource in a run.
MaxChanges == 3
\* The events of the appliance that wait for the event task.
MaxPending == 2
\* The messages of the appliance's stream that the event task ingests.
MaxMessages == 2
\* The successful bridge.set_host and bridge.pair actions of a run.
MaxSettingWrites == 3
\* The rounds of a background task's loop in a run.
MaxRounds == 2
\* The events published on the ingest hub for the forwarder.
MaxHubEvents == 3
\* The largest value of the inventory_revision row.
MaxRevision == 2
\* The largest max_attempts that request_jsonish is called with.
MaxAttempts == 3
\* The calls of request_jsonish in a run.
MaxCalls == 2

\* ------------------------------------------------------------ plain values
\* Python's None.
None == "None"
\* No row under a primary key of the idempotency table.
NoRow == [status |-> "absent"]
\* SQL NULL / a value, for the nullable columns.
Null == <<>>
\* The effective request id of each request: X-Request-Id or the body's
\* requestId; the second request carries neither.
RequestIds == <<"r-1", None, "r-3", "r-4">>

Dispatches == 1..NDispatch

\* AuthContext values that authenticate_v2 can return.
AuthContexts == {[scheme |-> "bearer", credential |-> "dev-token"]}
\* The callers where several of them use the gateway: the same credential
\* string under either scheme (config.auth_tokens and config.api_keys may
\* hold the same string), and a second bearer token.
Callers ==
    {[scheme |-> "bearer", credential |-> "dev-token"],
     [scheme |-> "api_key", credential |-> "dev-token"],
     [scheme |-> "bearer", credential |-> "other-token"]}
\* Effective idempotency keys; None stands for an absent or empty key.
IdemKeys == {"k1", "k2"}
\* The (action, args) pairs of the requests.
Payloads ==
    { [action |-> "bridge.set_host", args |-> "192.168.1.29"],
      [action |-> "bridge.set_host", args |-> "192.168.1.30"],
      [action |-> "bridge.pair", args |-> "{}"] }
\* Steps by which the wall clock (time.time()) moves between two statements:
\* a row written before the step has expired after it (expires_at <= now).
TickSteps == {TtlSeconds}

Streams == 1..NStreams
Forwarders == 1..NForwarders
\* The "type" of the events the bridge sync publishes.
EventTypes == {"resource.updated"}
\* Last-Event-ID header values of the stream requests; "" is an absent header.
LastEventIds == {"", "abc", "0", "1", "2", "3"}

VARIABLES
    \* --- idempotency table and wall clock
    rows,        \* idempotency table: primary key -> row or NoRow
    now,         \* int(time.time())
    ticks,       \* how often the clock has been advanced
    \* --- V2Dispatcher.dispatch: the requests in flight
    dpc,         \* position of each dispatch ("idle": not yet arrived)
    req,         \* its arguments: auth, payload, request_id, idempotency_key
    mipNow,      \* mark_in_progress's local `now`
    inserted,    \* mark_in_progress's `inserted`
    response,    \* `response`, the V2HTTPResponse of _dispatch_impl
    insertSaw,   \* history: what the INSERT OR IGNORE of this dispatch found
    returned,    \* the dispatch returning in this step and its V2HTTPResponse
    \* --- cleanup_loop
    cpc,         \* position of the housekeeping task
    cToDelete,   \* cleanup_expired's local `to_delete`
    \* --- EventHub
    hubSubscribers, \* EventHub._subscribers: the tasks whose queue is subscribed
    hubQueue,    \* the queue of each hub subscriber
    hubTs,       \* number of events published on the hub
    \* --- forward_v1_to_v2_loop
    fpc,         \* position of each forwarding task
    fEvent,      \* its local `event`
    \* --- V2EventBus
    cursor,      \* V2EventBus._cursor
    replay,      \* V2EventBus._replay, the ring
    subscribers, \* V2EventBus._subscribers: the streams whose queue is
                 \* subscribed
    queue,       \* the queue of each stream's subscription
    issued,      \* history: the cursors publish and allocate_cursor returned
    overflow,    \* history: publish has dropped an item from this queue
    \* --- v2_events_stream
    spc,         \* position of each stream ("idle": not yet opened)
    last_event_id, \* the Last-Event-ID header
    last_cursor, \* `last_cursor`: Null or the parsed integer
    last_sent,   \* _gen's `last_sent`
    resyncCursor, \* _gen's `cursor`, from allocate_cursor
    replayBuf,   \* the items of `replay` that are still to be sent
    frames,      \* history: the frames the stream has yielded
    inRing,      \* history: last_cursor was in the ring at replay_from
    snapshot,    \* history: the bus cursor at replay_from
    \* --- TokenBucketLimiter
    buckets,     \* TokenBucketLimiter._buckets: key -> Null or a bucket
    monotonic,   \* time.monotonic(), in ticks
    admitted,    \* history: per key and tick, the cost admitted at that tick
    allowResult, \* the key and result of the latest allow_with_retry_after_ms
    \* --- v2_actions
    http,        \* the HTTP request of each dispatch: its headers and body
    \* --- Database: resources and name_index; the tasks of hue_sync
    resources,   \* table resources: rid -> NoResource or [rtype, name]
    name_index,  \* table name_index: a set of rows <<rtype, name_norm, rid>>
    syncpc,      \* position of the snapshot task (sync_core_resources)
    rebuildRows, \* rebuild_name_index's `rows` that are still to be inserted
    indexBefore, \* history: name_index when the running rebuild started
    eventpc,     \* position of the event task (_process_bridge_event_message)
    ref,         \* its locals rid, rtype, name
    candidates,  \* the latest result of list_name_candidates
    \* --- _resolve_name (v1 ActionDispatcher and V2Dispatcher)
    config,      \* the thresholds of AppConfig, in hundredths
    scores,      \* SequenceMatcher's ratio for each candidate, in the order
                 \* of list_name_candidates, in hundredths
    resolved,    \* what _resolve_name returned or raised
    \* --- handlers that call the appliance, and HueClient.request_jsonish
    hcall,       \* the dispatch: api, action, method, path, body
    hpc,         \* "idle", "request" (inside request_jsonish) or "done"
    hretry,      \* request_jsonish's argument `retry`
    attempt,     \* request_jsonish's loop variable
    requests,    \* history: the HTTP requests sent to the appliance
    hresult,     \* the dispatch's response: status code and code
    \* --- V2Dispatcher._actions_batch
    bpc,         \* "idle", "loop" or "done"
    steps,       \* payload.args.actions: the actions of the steps
    continue_on_error, \* payload.args.continueOnError
    step_i,      \* the loop's `i`
    results,     \* `results`
    failed,      \* Null, or failed_index, failed_status, failed_error
    executed,    \* history: index and response of every step dispatched
    batch_response, \* the response of the batch
    \* --- the except clauses of ActionDispatcher.dispatch and V2Dispatcher._dispatch_impl
    epc,         \* "idle", "handled" (the handler has returned or raised) or
                 \* "done"
    eapi,        \* the dispatcher: "v1" or "v2"
    raised,      \* what the handler did: returned, or raised an exception
    envelope,     \* the response the dispatcher built
    \* --- bridge.pair (ActionDispatcher._bridge_pair, V2Dispatcher._bridge_pair)
    ppc,         \* "idle", "post" (awaiting hue.post_json) or "done"
    papi,        \* the dispatcher: "v1" or "v2"
    setting_application_key, \* settings["application_key"]: Null or <<K>>
    hue_application_key, \* HueClient._application_key: Null or <<K>>
    key_before,  \* history: the two keys when the running call started
    pair_answer, \* the body hue.post_json returned
    pair_response, \* the response of the dispatch
    \* --- inventory.snapshot (V2Dispatcher._inventory_snapshot)
    inventory_revision, \* settings["inventory_revision"]: Null (no row) or <<n>>
    reported,    \* history: per revision, Null or <<the resources table when
                 \* a full snapshot first reported it>>
    inventory_result, \* the result of the latest inventory.snapshot
    \* --- V2Dispatcher._set_state and _verify_poll
    vpc,         \* "idle", "put" (awaiting the PUT), "poll" (in
                 \* _verify_poll's loop) or "done"
    vreq,        \* the call: target_rtype, implicit_verify, applied, verify
    vnow,        \* time.monotonic(), in milliseconds
    deadline,    \* _verify_poll's `deadline`
    last_observed, \* _verify_poll's `last_observed`: Null or <<state>>
    verify_warnings, \* _verify_poll's `warnings`: Null or <<the mismatching
                 \* fields>>
    vhistory,    \* history: whether the PUT was sent, when the call and the
                 \* polling started, when the latest GET was sent and what it
                 \* returned
    set_result,   \* the result of _set_state
    \* --- _build_light_payload (v1) and _build_applied_payload (v2)
    light_call,  \* the call: api, action, and the arguments on and brightness
    light_payload, \* what the builder returned or raised: status, brightness
                 \* sent, warnings
    \* --- the callers of V2Dispatcher.dispatch
    creator,      \* history: per primary key, Null or <<the AuthContext whose
                 \* dispatch inserted the row>>
    \* --- one resource of the appliance and its copies (sync_core_resources, _process_bridge_event_message)
    bridge_resource, \* the resource on the appliance: Null or <<the version of
                 \* its data>>
    bridge_changes, \* how often the appliance has changed it
    sse_pending, \* the events of the appliance's stream not yet processed
    mpc,         \* the snapshot task: "idle", "fetched", "commit" or "complete"
    listed,      \* the snapshot's `data`: Null (no item) or <<the version
                 \* listed>>
    mevpc,       \* the event task: "idle" or "fetched"
    fetched_full, \* the event task's `resource`
    store_row,   \* the row of the resources table: Null or <<version>>
    cache_entry, \* the entry of ResourceCache: Null or <<version>>
    index_row,   \* whether name_index holds a row of the resource
    newest_written, \* history: the newest version written to the store (a
                 \* deletion counts with the version of its event)
    event_wrote,  \* history: the event task has written since the snapshot
                 \* fetched its list
    \* --- the event task's handling of a message (_process_bridge_event_message)
    events,      \* the references (event_type, rid) of the message not yet
                 \* handled
    ingpc,       \* the event task: "idle", "ref", "cache_delete", "upsert" or
                 \* "cache_upsert"
    resource,    \* the re-fetched `resource`: NoResource or [rtype, name]
    tab_resources, \* table resources as the event task writes it
    tab_index,   \* table name_index as the event task writes it
    by_rid,      \* ResourceCache._by_rid: rid -> NoResource or [rtype, name]
    hub_event,   \* the event last published on the hub: Null or <<[type, rid]>>
    messages,    \* history: the messages ingested
    refs_ingested, \* history: the references of the ingested messages
    hub_published, \* history: the events published on the hub
    \* --- the appliance's address and key: settings, AppConfig, AppState, HueClient (app.py lifespan)
    bootpc,      \* "start" (before lifespan), "loop" (bootstrap_loop
                 \* sleeping) or "read" (the settings are read)
    settings,    \* settings rows bridge_host and application_key: Null or
                 \* <<value>> each
    app_config,  \* `config` after lifespan's replace(): bridge_host,
                 \* application_key
    app_state,   \* AppState.bridge_host and .application_key
    client,      \* HueClient._bridge_host and ._application_key
    read_now,    \* bootstrap_loop's bridge_host_now and app_key_now
    setting_writes, \* history: the successful bridge.set_host and bridge.pair
                 \* actions
    \* --- the background tasks of lifespan (app.py) and their loops
    task_status, \* task -> "running", "failed" (ended by an exception) or
                 \* "cancelled"
    task_rounds, \* task -> the rounds of its loop that it has begun
    task_failures, \* history: task -> the failures that have hit it
    \* --- the forwarder from the ingest hub to the v2 bus (forward_v1_to_v2_loop)
    fwpc,        \* the forwarder: "start", "get", "get_setting_int" or
                 \* "publish"
    fw_queue,    \* subscription.queue of the forwarder on the ingest hub
    fw_event,    \* the forwarder's `event`
    fw_revision, \* the forwarder's `revision`
    revision_row, \* settings["inventory_revision"]: Null (no row) or <<n>>
    bus_replay,  \* the items of the v2 bus in the order of their publication
    hub_count,   \* history: the events published on the ingest hub
    dequeued,    \* history: the events the forwarder has taken from its queue
    revisions_read, \* history: the value of the row at each read of the
                 \* forwarder
    \* --- one call of HueClient.request_jsonish after the other
    rjpc,        \* "idle", "loop" (at the head of the for loop) or "done"
    rj_retry,    \* the argument retry
    rj_max_attempts, \* the argument max_attempts
    rj_attempt,  \* the loop variable attempt
    rj_answers,  \* history: what client.request did at each HTTP attempt of
                 \* the call
    rj_outcome,  \* how the call ended: NoOutcome, a result or an exception
    rj_calls,     \* history: the calls made
    \* --- ResourceCache (cache.py)
    cache_by_rid, \* _by_rid: rid -> CachedResource, or NoCached
    name_to_rids, \* _name_to_rids: (rtype, name_norm) -> set of rids
    rid_to_name_norm, \* _rid_to_name_norm: rid -> name_norm, or NoCached
    indexed_before \* history: the (key, rid) entries the index has held

idemVars == <<rows, now, ticks, dpc, req, mipNow, inserted, response, insertSaw,
              returned, cpc, cToDelete>>

busVars == <<hubSubscribers, hubQueue, hubTs, fpc, fEvent, cursor, replay,
             subscribers, queue, issued, overflow, spc, last_event_id,
             last_cursor, last_sent, resyncCursor, replayBuf, frames, inRing,
             snapshot>>

limVars == <<buckets, monotonic, admitted, allowResult>>
routerVars == <<http>>
storeVars == <<resources, name_index, syncpc, rebuildRows, indexBefore,
               eventpc, ref, candidates>>
resolveVars == <<config, scores, resolved>>
clipVars == <<hcall, hpc, hretry, attempt, requests, hresult>>
batchVars == <<bpc, steps, continue_on_error, step_i, results, failed, executed,
               batch_response>>

errVars == <<epc, eapi, raised, envelope>>

pairVars == <<ppc, papi, setting_application_key, hue_application_key,
              key_before, pair_answer, pair_response>>

invVars == <<inventory_revision, reported, inventory_result>>

verifyVars == <<vpc, vreq, vnow, deadline, last_observed, verify_warnings,
                vhistory, set_result>>

lightVars == <<light_call, light_payload>>

scopeVars == <<creator>>

mirrorVars == <<bridge_resource, bridge_changes, sse_pending, mpc, listed,
                mevpc, fetched_full, store_row, cache_entry, index_row,
                newest_written, event_wrote>>

ingestVars == <<events, ingpc, resource, tab_resources, tab_index, by_rid,
                hub_event, messages, refs_ingested, hub_published>>

bootVars == <<bootpc, settings, app_config, app_state, client, read_now,
              setting_writes>>

taskVars == <<task_status, task_rounds, task_failures>>

fwdVars == <<fwpc, fw_queue, fw_event, fw_revision, revision_row, bus_replay,
             hub_count, dequeued, revisions_read>>

jsonishVars == <<rjpc, rj_retry, rj_max_attempts, rj_attempt, rj_answers,
                 rj_outcome, rj_calls>>

cacheVars == <<cache_by_rid, name_to_rids, rid_to_name_norm, indexed_before>>

\* The variables of the parts other than the idempotency engine and the bus.
otherVars == <<limVars, routerVars, storeVars, resolveVars, clipVars,
               batchVars, errVars, pairVars, invVars, verifyVars, lightVars,
               scopeVars, mirrorVars, ingestVars, bootVars, taskVars, fwdVars,
               jsonishVars, cacheVars>>
\* otherVars less the limiter's.
exLimVars == <<routerVars, storeVars, resolveVars, clipVars, batchVars,
               errVars, pairVars, invVars, verifyVars, lightVars, scopeVars,
               mirrorVars, ingestVars, bootVars, taskVars, fwdVars,
               jsonishVars, cacheVars>>
\* otherVars less the limiter's and the router's.
exRouterVars == <<storeVars, resolveVars, clipVars, batchVars, errVars,
                  pairVars, invVars, verifyVars, lightVars, scopeVars,
                  mirrorVars, ingestVars, bootVars, taskVars, fwdVars,
                  jsonishVars, cacheVars>>
\* otherVars less the store's.
exStoreVars == <<limVars, routerVars, resolveVars, clipVars, batchVars,
                 errVars, pairVars, invVars, verifyVars, lightVars, scopeVars,
                 mirrorVars, ingestVars, bootVars, taskVars, fwdVars,
                 jsonishVars, cacheVars>>
\* otherVars less the name resolver's.
exResolveVars == <<limVars, routerVars, storeVars, clipVars, batchVars,
                   errVars, pairVars, invVars, verifyVars, lightVars,
                   scopeVars, mirrorVars, ingestVars, bootVars, taskVars,
                   fwdVars, jsonishVars, cacheVars>>
\* otherVars less those of the appliance calls.
exClipVars == <<limVars, routerVars, storeVars, resolveVars, batchVars,
                errVars, pairVars, invVars, verifyVars, lightVars, scopeVars,
                mirrorVars, ingestVars, bootVars, taskVars, fwdVars,
                jsonishVars, cacheVars>>
\* otherVars less the batch's.
exBatchVars == <<limVars, routerVars, storeVars, resolveVars, clipVars,
                 errVars, pairVars, invVars, verifyVars, lightVars, scopeVars,
                 mirrorVars, ingestVars, bootVars, taskVars, fwdVars,
                 jsonishVars, cacheVars>>
\* otherVars less those of the dispatchers' except clauses.
exErrVars == <<limVars, routerVars, storeVars, resolveVars, clipVars,
               batchVars, pairVars, invVars, verifyVars, lightVars, scopeVars,
               mirrorVars, ingestVars, bootVars, taskVars, fwdVars,
               jsonishVars, cacheVars>>
\* otherVars less those of bridge.pair.
exPairVars == <<limVars, routerVars, storeVars, resolveVars, clipVars,
                batchVars, errVars, invVars, verifyVars, lightVars, scopeVars,
                mirrorVars, ingestVars, bootVars, taskVars, fwdVars,
                jsonishVars, cacheVars>>
\* otherVars less those of inventory.snapshot.
exInvVars == <<limVars, routerVars, storeVars, resolveVars, clipVars,
               batchVars, errVars, pairVars, verifyVars, lightVars, scopeVars,
               mirrorVars, ingestVars, bootVars, taskVars, fwdVars,
               jsonishVars, cacheVars>>
\* otherVars less those of the verified state change.
exVerifyVars == <<limVars, routerVars, storeVars, resolveVars, clipVars,
                  batchVars, errVars, pairVars, invVars, lightVars, scopeVars,
                  mirrorVars, ingestVars, bootVars, taskVars, fwdVars,
                  jsonishVars, cacheVars>>
\* otherVars less those of the payload builders.
exLightVars == <<limVars, routerVars, storeVars, resolveVars, clipVars,
                 batchVars, errVars, pairVars, invVars, verifyVars, scopeVars,
                 mirrorVars, ingestVars, bootVars, taskVars, fwdVars,
                 jsonishVars, cacheVars>>
\* otherVars less the history of the callers.
exScopeVars == <<limVars, routerVars, storeVars, resolveVars, clipVars,
                 batchVars, errVars, pairVars, invVars, verifyVars, lightVars,
                 mirrorVars, ingestVars, bootVars, taskVars, fwdVars,
                 jsonishVars, cacheVars>>
\* otherVars less those of the mirrored resource.
exMirrorVars == <<limVars, routerVars, storeVars, resolveVars, clipVars,
                  batchVars, errVars, pairVars, invVars, verifyVars,
                  lightVars, scopeVars, ingestVars, bootVars, taskVars,
                  fwdVars, jsonishVars, cacheVars>>
\* otherVars less those of the ingested messages.
exIngestVars == <<limVars, routerVars, storeVars, resolveVars, clipVars,
                  batchVars, errVars, pairVars, invVars, verifyVars,
                  lightVars, scopeVars, mirrorVars, bootVars, taskVars,
                  fwdVars, jsonishVars, cacheVars>>
\* otherVars less those of the bootstrap loop.
exBootVars == <<limVars, routerVars, storeVars, resolveVars, clipVars,
                batchVars, errVars, pairVars, invVars, verifyVars, lightVars,
                scopeVars, mirrorVars, ingestVars, taskVars, fwdVars,
                jsonishVars, cacheVars>>
\* otherVars less those of the background tasks.
exTaskVars == <<limVars, routerVars, storeVars, resolveVars, clipVars,
                batchVars, errVars, pairVars, invVars, verifyVars, lightVars,
                scopeVars, mirrorVars, ingestVars, bootVars, fwdVars,
                jsonishVars, cacheVars>>
\* otherVars less those of the forwarder.
exFwdVars == <<limVars, routerVars, storeVars, resolveVars, clipVars,
               batchVars, errVars, pairVars, invVars, verifyVars, lightVars,
               scopeVars, mirrorVars, ingestVars, bootVars, taskVars,
               jsonishVars, cacheVars>>
\* otherVars less those of request_jsonish.
exJsonishVars == <<limVars, routerVars, storeVars, resolveVars, clipVars,
                   batchVars, errVars, pairVars, invVars, verifyVars,
                   lightVars, scopeVars, mirrorVars, ingestVars, bootVars,
                   taskVars, fwdVars, cacheVars>>
\* otherVars less those of the resource cache.
exCacheVars == <<limVars, routerVars, storeVars, resolveVars, clipVars,
                 batchVars, errVars, pairVars, invVars, verifyVars, lightVars,
                 scopeVars, mirrorVars, ingestVars, bootVars, taskVars,
                 fwdVars, jsonishVars>>

vars == <<rows, now, ticks, dpc, req, mipNow, inserted, response, insertSaw,
          returned, cpc, cToDelete,
          hubSubscribers, hubQueue, hubTs, fpc, fEvent, cursor, replay,
          subscribers, queue, issued, overflow, spc, last_event_id,
          last_cursor, last_sent, resyncCursor, replayBuf, frames, inRing,
          snapshot,
          resources, name_index, syncpc, rebuildRows, indexBefore,
          eventpc, ref, candidates,
          config, scores, resolved,
          hcall, hpc, hretry, attempt, requests, hresult,
          bpc, steps, continue_on_error, step_i, results, failed, executed,
          batch_response,
          buckets, monotonic, admitted, allowResult,
          http,
          epc, eapi, raised, envelope,
          ppc, papi, setting_application_key, hue_application_key, key_before,
          pair_answer, pair_response,
          inventory_revision, reported, inventory_result,
          vpc, vreq, vnow, deadline, last_observed, verify_warnings, vhistory,
          set_result,
          light_call, light_payload,
          creator,
          bridge_resource, bridge_changes, sse_pending, mpc, listed, mevpc,
          fetched_full, store_row, cache_entry, index_row, newest_written,
          event_wrote,
          events, ingpc, resource, tab_resources, tab_index, by_rid,
          hub_event, messages, refs_ingested, hub_published,
          bootpc, settings, app_config, app_state, client, read_now,
          setting_writes,
          task_status, task_rounds, task_failures,
          fwpc, fw_queue, fw_event, fw_revision, revision_row, bus_replay,
          hub_count, dequeued, revisions_read,
          rjpc, rj_retry, rj_max_attempts, rj_attempt, rj_answers, rj_outcome,
          rj_calls,
          cache_by_rid, name_to_rids, rid_to_name_norm, indexed_before>>

\* ------------------------------------------------------- pure functions
\* Faulty variant: the digest of the credential alone.
FingerprintOfCredential(auth) == <<"sha256", auth.credential>>
\* sha256(scheme + ":" + credential): the digest is modelled by its preimage.
credential_fingerprint(auth) == <<"sha256", auth.scheme, ":", auth.credential>>

\* sha256 of the canonical JSON {"action":..,"args":..} (sorted keys).
request_hash(action, args) == <<"sha256", <<"action", action>>, <<"args", args>>>>

\* max(a, b)
Max(a, b) == IF a >= b THEN a ELSE b

\* The primary key (credential_fingerprint, idempotency_key).
RowKey(fp, key) == <<fp, key>>
RowKeys ==
    { RowKey(credential_fingerprint(a), k) : a \in AuthContexts \cup Callers,
                                             k \in IdemKeys }

\* json.dumps(obj, separators=(",", ":")) of a response body: the members in
\* insertion order, None written as null.
JsonKeyOrder == <<"requestId", "action", "ok", "result", "error">>
JsonMember(k, v) ==
    IF k = "requestId" /\ v = None THEN <<k, "null">>
    ELSE IF k = "requestId" THEN <<k, "string", v>>
    ELSE <<k, "value", v>>
json_dumps(obj) ==
    LET keys == SelectSeq(JsonKeyOrder, LAMBDA k : k \in DOMAIN obj)
    IN  [i \in 1..Len(keys) |-> JsonMember(keys[i], obj[keys[i]])]
\* json.loads of such a text.
json_loads(text) ==
    LET idx(k) == CHOOSE i \in 1..Len(text) : text[i][1] = k
    IN  [k \in { text[i][1] : i \in 1..Len(text) } |->
            IF text[idx(k)][2] = "null" THEN None ELSE text[idx(k)][3]]

\* V2Dispatcher._error
ErrorResponse(request_id, action, status_code, code, details, headers) ==
    [ status_code |-> status_code,
      body |-> [ requestId |-> request_id, action |-> action, ok |-> FALSE,
                 error |-> [code |-> code, details |-> details] ],
      headers |-> headers ]

\* What an action handler can answer (through _dispatch_impl's try/except).
HandlerResponse(request_id, payload, outcome) ==
    IF outcome = "ok"
    THEN [ status_code |-> 200,
           body |-> [ requestId |-> request_id, action |-> payload.action, ok |-> TRUE,
                      result |-> [args |-> payload.args, stored |-> TRUE] ],
           headers |-> {} ]
    ELSE ErrorResponse(request_id, payload.action, 424, "bridge_unreachable",
                       [error |-> "connect"], {})
HandlerOutcomes == {"ok", "bridge_unreachable"}

\* ------------------------------------------------------------------ Init
NoReq == [idempotency_key |-> None]
NoResponse == [status_code |-> 0]
\* No dispatch returns in this step.
NoReturn == <<>>
Return(d, r) == <<[dispatch |-> d, response |-> r]>>

InitIdem ==
    /\ rows = [k \in RowKeys |-> NoRow]
    /\ now = 0
    /\ ticks = 0
    /\ dpc = [d \in Dispatches |-> "idle"]
    /\ req = [d \in Dispatches |-> NoReq]
    /\ mipNow = [d \in Dispatches |-> 0]
    /\ inserted = [d \in Dispatches |-> FALSE]
    /\ response = [d \in Dispatches |-> NoResponse]
    /\ insertSaw = [d \in Dispatches |-> NoRow]
    /\ returned = NoReturn
    /\ cpc = "sleep"
    /\ cToDelete = 0

\* --------------------------------------------------------------- dispatch
KeyOf(d) == RowKey(credential_fingerprint(req[d].auth), req[d].idempotency_key)
ReqHash(d) == request_hash(req[d].payload.action, req[d].payload.args)

\* The row mark_in_progress inserts.
NewRow(fp, key, action, req_hash, t) ==
    [ credential_fingerprint |-> fp, idempotency_key |-> key, action |-> action,
      request_hash |-> req_hash, status |-> "in_progress",
      response_status_code |-> Null, response_json |-> Null,
      created_at |-> t, updated_at |-> t, expires_at |-> t + Max(1, TtlSeconds) ]

\* Faulty variant of the claim statement: INSERT OR REPLACE.
InsertOrReplace(table, k, row) == [table EXCEPT ![k] = row]

\* INSERT OR IGNORE: the table after the statement.
InsertOrIgnore(table, k, row) ==
    IF table[k].status = "absent" THEN [table EXCEPT ![k] = row] ELSE table

\* What of a row the history variable insertSaw keeps.
Seen(row) ==
    IF row.status = "absent" THEN NoRow
    ELSE [status |-> row.status, action |-> row.action, request_hash |-> row.request_hash]

\* Dispatch d has returned: its locals are gone.
Forget(d) ==
    /\ dpc' = [dpc EXCEPT ![d] = "done"]
    /\ req' = [req EXCEPT ![d] = NoReq]
    /\ mipNow' = [mipNow EXCEPT ![d] = 0]
    /\ inserted' = [inserted EXCEPT ![d] = FALSE]
    /\ response' = [response EXCEPT ![d] = NoResponse]
    /\ insertSaw' = [insertSaw EXCEPT ![d] = NoRow]

\* The keys and payloads the d-th request may carry.  The model treats keys
\* alike and payloads alike, so the first request is given the first of each:
\* every other run is one of these with the names exchanged.
KeysFor(d) == IF d = 1 THEN {"k1", None} ELSE IdemKeys \cup {None}
PayloadsFor(d) ==
    IF d = 1 THEN {[action |-> "bridge.set_host", args |-> "192.168.1.29"]} ELSE Payloads

\* V2Dispatcher.dispatch is called with these arguments: without a key it
\* goes to _dispatch_impl; with one, mark_in_progress runs its INSERT OR IGNORE.
dispatch_call(d, a, key, p, request_id) ==
    /\ req' = [req EXCEPT ![d] = [auth |-> a, payload |-> p,
                                  request_id |-> request_id,
                                  idempotency_key |-> key]]
    /\ IF key = None
       THEN /\ dpc' = [dpc EXCEPT ![d] = "impl"]
            /\ UNCHANGED <<rows, inserted, insertSaw, mipNow>>
       ELSE LET k == RowKey(credential_fingerprint(a), key)
                row == NewRow(k[1], k[2], p.action,
                              request_hash(p.action, p.args), now)
            IN  /\ rows' = InsertOrIgnore(rows, k, row)
                \* inserted = (cur.rowcount == 1)
                /\ inserted' = [inserted EXCEPT ![d] = (rows'[k] # rows[k])]
                /\ insertSaw' = [insertSaw EXCEPT ![d] = Seen(rows[k])]
                /\ mipNow' = [mipNow EXCEPT ![d] = now]
                /\ dpc' = [dpc EXCEPT ![d] = "mip_get"]
    /\ returned' = NoReturn
    /\ UNCHANGED <<now, ticks, response, cpc, cToDelete>>
    /\ UNCHANGED busVars

\* A request reaches V2Dispatcher.dispatch.
dispatch(d) ==
    /\ dpc[d] = "idle"
    /\ \E a \in AuthContexts, key \in KeysFor(d), p \in PayloadsFor(d) :
          dispatch_call(d, a, key, p, RequestIds[d])
    /\ UNCHANGED otherVars

\* Faulty variant of the replay: the stored body returned verbatim.
ReplayVerbatim(r, request_id) ==
    [ status_code |-> r.response_status_code[1],
      body |-> json_loads(r.response_json),
      headers |-> {} ]

\* The stored response as dispatch replays it: obj["requestId"] = request_id.
Replay(r, request_id) ==
    LET obj == json_loads(r.response_json)
    IN  [ status_code |-> r.response_status_code[1],
          body |-> [k \in DOMAIN obj \cup {"requestId"} |->
                       IF k = "requestId" THEN request_id ELSE obj[k]],
          headers |-> {} ]

\* Faulty variant of the reuse test: the request hash is not compared.
MismatchActionOnly(r, action, req_hash) == r.action # action

\* rec.action != action or rec.request_hash != req_hash
Mismatch(r, action, req_hash) == r.action # action \/ r.request_hash # req_hash

\* dispatch's answer when the claim was not inserted; NoResponse when it
\* goes on to run the handler.
NotInsertedResponse(d, r) ==
    LET rid == req[d].request_id
        act == req[d].payload.action
        key == req[d].idempotency_key
        mismatch == Mismatch(r, act, ReqHash(d))
    IN  IF r.status = "in_progress"
        THEN IF mismatch
             THEN ErrorResponse(rid, act, 409, "idempotency_key_reuse_mismatch",
                                [idempotencyKey |-> key], {})
             ELSE ErrorResponse(rid, act, 409, "idempotency_in_progress",
                                [retryAfterMs |-> 250], {<<"Retry-After", "1">>})
        ELSE IF r.status = "completed"
        THEN IF mismatch
             THEN ErrorResponse(rid, act, 409, "idempotency_key_reuse_mismatch",
                                [idempotencyKey |-> key], {})
             ELSE IF r.response_status_code = Null \/ r.response_json = Null
             THEN ErrorResponse(rid, act, 500, "internal_error",
                                [idempotencyKey |-> key], {})
             ELSE Replay(r, rid)
        ELSE NoResponse

\* get_record as mark_in_progress uses it: the row, or the fail-safe
\* in-progress record when the row is gone.
RecordRead(d) ==
    LET k == KeyOf(d)
    IN  IF rows[k].status = "absent"
        THEN NewRow(k[1], k[2], req[d].payload.action, ReqHash(d), mipNow[d])
        ELSE rows[k]

\* mark_in_progress's get_record and dispatch's branch on (rec, inserted).
mark_in_progress_get(d) ==
    /\ dpc[d] = "mip_get"
    /\ LET answer == IF inserted[d] THEN NoResponse
                     ELSE NotInsertedResponse(d, RecordRead(d))
       IN  IF answer.status_code = 0
           THEN /\ dpc' = [dpc EXCEPT ![d] = "impl"]
                /\ mipNow' = [mipNow EXCEPT ![d] = 0]
                /\ returned' = NoReturn
                /\ UNCHANGED <<req, inserted, response, insertSaw>>
           ELSE /\ returned' = Return(d, answer)
                /\ Forget(d)
    /\ UNCHANGED <<rows, now, ticks, cpc, cToDelete>>
    /\ UNCHANGED <<busVars, otherVars>>

\* _dispatch_impl: the action handler runs and answers; a dispatch without
\* a key returns that answer.
dispatch_impl(d) ==
    /\ dpc[d] = "impl"
    /\ \E o \in HandlerOutcomes :
          LET r == HandlerResponse(req[d].request_id, req[d].payload, o)
          IN  IF req[d].idempotency_key = None
              THEN /\ returned' = Return(d, r)
                   /\ Forget(d)
              ELSE /\ response' = [response EXCEPT ![d] = r]
                   /\ dpc' = [dpc EXCEPT ![d] = "mark_completed"]
                   /\ returned' = NoReturn
                   /\ UNCHANGED <<req, mipNow, inserted, insertSaw>>
    /\ UNCHANGED <<rows, now, ticks, cpc, cToDelete>>
    /\ UNCHANGED <<busVars, otherVars>>

\* mark_completed's UPDATE ... WHERE credential_fingerprint = ? AND idempotency_key = ?
UpdateCompleted(table, k, action, req_hash, status_code, response_obj, t) ==
    IF table[k].status = "absent" THEN table
    ELSE [table EXCEPT ![k] =
            [@ EXCEPT !.action = action, !.request_hash = req_hash,
                      !.status = "completed",
                      !.response_status_code = <<status_code>>,
                      !.response_json = json_dumps(response_obj),
                      !.updated_at = t, !.expires_at = t + Max(1, TtlSeconds)]]

\* mark_completed, or its failure, which dispatch swallows; dispatch returns
\* the handler's response.
mark_completed(d) ==
    /\ dpc[d] = "mark_completed"
    /\ \/ rows' = UpdateCompleted(rows, KeyOf(d), req[d].payload.action, ReqHash(d),
                                  response[d].status_code, response[d].body, now)
       \/ UNCHANGED rows
    /\ returned' = Return(d, response[d])
    /\ Forget(d)
    /\ UNCHANGED <<now, ticks, cpc, cToDelete>>
    /\ UNCHANGED <<busVars, otherVars>>

\* ---------------------------------------------------------------- cleanup
Present(table) == { k \in RowKeys : table[k].status # "absent" }

\* Faulty variant of the expiry sweep: only completed rows are deleted.
DeleteExpiredCompleted(table, t) ==
    [k \in RowKeys |-> IF table[k].status = "completed" /\ table[k].expires_at <= t
                       THEN NoRow ELSE table[k]]

\* DELETE FROM idempotency WHERE expires_at <= now
DeleteExpired(table, t) ==
    [k \in RowKeys |-> IF table[k].status # "absent" /\ table[k].expires_at <= t
                       THEN NoRow ELSE table[k]]

\* The sets of rows "ORDER BY updated_at ASC LIMIT n" can select.
OldestSets(table, n) ==
    { S \in SUBSET Present(table) :
        /\ Cardinality(S) = (IF n <= Cardinality(Present(table)) THEN n
                             ELSE Cardinality(Present(table)))
        /\ \A s \in S, r \in Present(table) \ S :
              table[s].updated_at <= table[r].updated_at }

dispatchLocals == <<dpc, req, mipNow, inserted, response, insertSaw>>

\* cleanup_expired: the expiry sweep.
cleanup_expired_sweep ==
    /\ cpc = "sleep"
    /\ rows' = DeleteExpired(rows, now)
    /\ cpc' = "count"
    /\ returned' = NoReturn
    /\ UNCHANGED <<now, ticks, dispatchLocals, cToDelete>>
    /\ UNCHANGED <<busVars, otherVars>>

\* cleanup_expired: SELECT COUNT(*) and the decision on the hard cap.
cleanup_expired_count ==
    /\ cpc = "count"
    /\ LET count == Cardinality(Present(rows))
       IN  IF count > MaxRows
           THEN /\ cToDelete' = count - MaxRows
                /\ cpc' = "cap"
           ELSE /\ cToDelete' = 0
                /\ cpc' = "sleep"
    /\ returned' = NoReturn
    /\ UNCHANGED <<rows, now, ticks, dispatchLocals>>
    /\ UNCHANGED <<busVars, otherVars>>

\* cleanup_expired: delete the oldest rows beyond max_rows.
cleanup_expired_cap ==
    /\ cpc = "cap"
    /\ \E S \in OldestSets(rows, cToDelete) :
          rows' = [k \in RowKeys |-> IF k \in S THEN NoRow ELSE rows[k]]
    /\ cpc' = "sleep"
    /\ cToDelete' = 0
    /\ returned' = NoReturn
    /\ UNCHANGED <<now, ticks, dispatchLocals>>
    /\ UNCHANGED <<busVars, otherVars>>

\* The request of another caller whose claim is written while cleanup_expired
\* is between two of its statements.
OtherRequest ==
    [ auth |-> [scheme |-> "bearer", credential |-> "other-token"],
      idempotency_key |-> "k1",
      payload |-> [action |-> "bridge.set_host", args |-> "192.168.1.29"] ]

\* mark_in_progress of that request: INSERT OR IGNORE and commit.
mark_in_progress_other ==
    /\ LET fp == credential_fingerprint(OtherRequest.auth)
           key == OtherRequest.idempotency_key
           act == OtherRequest.payload.action
           hash == request_hash(act, OtherRequest.payload.args)
       IN  /\ rows[RowKey(fp, key)].status = "absent"
           /\ rows' = InsertOrIgnore(rows, RowKey(fp, key),
                                     NewRow(fp, key, act, hash, now))
    /\ returned' = NoReturn
    /\ UNCHANGED <<now, ticks, dispatchLocals, cpc, cToDelete>>
    /\ UNCHANGED <<busVars, otherVars>>

\* The wall clock moves on.
Tick ==
    /\ ticks < MaxTicks
    /\ \E dt \in TickSteps : now' = now + dt
    /\ ticks' = ticks + 1
    /\ returned' = NoReturn
    /\ UNCHANGED <<rows, dispatchLocals, cpc, cToDelete>>
    /\ UNCHANGED <<busVars, otherVars>>

\* ------------------------------------------------- event hub and event bus
\* V2EventItem(cursor, event)
V2EventItem(c, event) == [cursor |-> c, event |-> event]
\* The cursors of a sequence of items.
Cursors(items) == { items[i].cursor : i \in 1..Len(items) }

\* Faulty variant of the cursor step: the cursor is not advanced.
SameCursor(c) == c

\* self._cursor += 1
NextCursor(c) == c + 1

\* deque(maxlen).append: the oldest item falls out of a full ring.
DequeAppend(items, item) ==
    IF Len(items) >= ReplayMaxlen THEN Append(Tail(items), item)
    ELSE Append(items, item)

\* Faulty variant of the enqueue: the new item is put in front.
PutAtHead(q, item, maxsize) ==
    IF Len(q) >= maxsize THEN <<item>> \o Tail(q) ELSE <<item>> \o q

\* Faulty variant of the enqueue: a full queue keeps its items.
PutUnlessFull(q, item, maxsize) ==
    IF Len(q) >= maxsize THEN q ELSE Append(q, item)

\* publish's loop body for one queue: if q.full(): q.get_nowait(); then
\* q.put_nowait(item).
PutDropOldest(q, item, maxsize) ==
    LET room == IF Len(q) >= maxsize THEN Tail(q) ELSE q
    IN  IF Len(room) >= maxsize THEN room ELSE Append(room, item)

\* What replay_from returns: None, or a list of items.
NoneReplay == [null |-> TRUE, items |-> <<>>]
ListReplay(items) == [null |-> FALSE, items |-> items]
After(items, last) == SelectSeq(items, LAMBDA it : it.cursor > last)

\* Faulty variant of replay_from: a cursor that is not in the ring is served.
replay_from_any(items, last) == ListReplay(After(items, last))

\* Faulty variant of replay_from: the item of the cursor itself is included.
replay_from_inclusive(items, last) ==
    IF items = <<>> THEN (IF last > 0 THEN NoneReplay ELSE ListReplay(<<>>))
    ELSE IF last <= 0 THEN ListReplay(items)
    ELSE IF last \notin Cursors(items) THEN NoneReplay
    ELSE ListReplay(SelectSeq(items, LAMBDA it : it.cursor >= last))

\* V2EventBus.replay_from on the ring `items`.
replay_from(items, last) ==
    IF items = <<>> THEN (IF last > 0 THEN NoneReplay ELSE ListReplay(<<>>))
    ELSE IF last <= 0 THEN ListReplay(items)
    ELSE IF last \notin Cursors(items) THEN NoneReplay
    ELSE ListReplay(After(items, last))

\* int(last_event_id): the parsed integer, or Null on ValueError.
IntLiterals == ("0" :> 0) @@ ("1" :> 1) @@ ("2" :> 2) @@ ("3" :> 3)
int(text) == IF text \in DOMAIN IntLiterals THEN <<IntLiterals[text]>> ELSE Null

\* The event the forwarder builds from a hub event.
V2Event(event) ==
    [ ts |-> event.ts,
      type |-> IF event.type = None THEN "unknown" ELSE event.type ]

\* Faulty variant of the live loop's test: nothing is skipped.
SkipNothing(item, sent) == FALSE

\* The live loop's test: item.cursor <= last_sent
AlreadySent(item, sent) == item.cursor <= sent

NoEvent == [ts |-> 0, type |-> None]

InitBus ==
    /\ hubSubscribers = {}
    /\ hubQueue = [f \in Forwarders |-> <<>>]
    /\ hubTs = 0
    /\ fpc = [f \in Forwarders |-> "start"]
    /\ fEvent = [f \in Forwarders |-> NoEvent]
    /\ cursor = 0
    /\ replay = <<>>
    /\ subscribers = {}
    /\ queue = [s \in Streams |-> <<>>]
    /\ issued = <<>>
    /\ overflow = [s \in Streams |-> FALSE]
    /\ spc = [s \in Streams |-> "idle"]
    /\ last_event_id = [s \in Streams |-> ""]
    /\ last_cursor = [s \in Streams |-> Null]
    /\ last_sent = [s \in Streams |-> 0]
    /\ resyncCursor = [s \in Streams |-> 0]
    /\ replayBuf = [s \in Streams |-> <<>>]
    /\ frames = [s \in Streams |-> <<>>]
    /\ inRing = [s \in Streams |-> FALSE]
    /\ snapshot = [s \in Streams |-> 0]

hubVars == <<hubSubscribers, hubQueue, hubTs>>
forwarderVars == <<fpc, fEvent>>
busState == <<cursor, replay, subscribers, queue, issued, overflow>>
streamVars == <<spc, last_event_id, last_cursor, last_sent, resyncCursor,
                replayBuf, frames, inRing, snapshot>>

\* EventHub.publish, called by the bridge sync: every subscribed queue gets
\* the event, a full one after giving up its oldest.
EventHub_publish ==
    /\ hubTs < MaxEvents
    /\ \E t \in EventTypes :
          LET event == [ts |-> hubTs + 1, type |-> t]
          IN  hubQueue' = [f \in Forwarders |->
                              IF f \in hubSubscribers
                              THEN PutDropOldest(hubQueue[f], event, MaxQueueSize)
                              ELSE hubQueue[f]]
    /\ hubTs' = hubTs + 1
    /\ UNCHANGED <<hubSubscribers, forwarderVars, busState, streamVars, idemVars, otherVars>>

\* forward_v1_to_v2_loop starts: hub.subscribe().
forward_subscribe(f) ==
    /\ fpc[f] = "start"
    /\ hubSubscribers' = hubSubscribers \cup {f}
    /\ fpc' = [fpc EXCEPT ![f] = "get"]
    /\ UNCHANGED <<hubQueue, hubTs, fEvent, busState, streamVars, idemVars, otherVars>>

\* The forwarder wakes up in subscription.queue.get() and goes on to the
\* read of inventory_revision.
forward_get(f) ==
    /\ fpc[f] = "get"
    /\ hubQueue[f] # <<>>
    /\ fEvent' = [fEvent EXCEPT ![f] = Head(hubQueue[f])]
    /\ hubQueue' = [hubQueue EXCEPT ![f] = Tail(hubQueue[f])]
    /\ fpc' = [fpc EXCEPT ![f] = "publish"]
    /\ UNCHANGED <<hubSubscribers, hubTs, busState, streamVars, idemVars, otherVars>>

\* V2EventBus.publish: the cursor step, the ring and the fan-out.  The lock
\* is never held across a suspension, so the call runs without one.
V2EventBus_publish(event) ==
    LET item == V2EventItem(NextCursor(cursor), event)
    IN  /\ cursor' = item.cursor
        /\ replay' = DequeAppend(replay, item)
        /\ queue' = [s \in Streams |->
                        IF s \in subscribers
                        THEN PutDropOldest(queue[s], item, QueueMaxsize)
                        ELSE queue[s]]
        /\ issued' = Append(issued, item.cursor)
        /\ overflow' = [s \in Streams |->
                           overflow[s] \/ (s \in subscribers /\ Len(queue[s]) >= QueueMaxsize)]
        /\ UNCHANGED subscribers

\* The forwarder builds the v2 event, publishes it and is back in
\* subscription.queue.get(), which hands out a waiting event at once.
forward_publish(f) ==
    /\ fpc[f] = "publish"
    /\ cursor < MaxCursor
    /\ V2EventBus_publish(V2Event(fEvent[f]))
    /\ IF hubQueue[f] # <<>>
       THEN /\ fEvent' = [fEvent EXCEPT ![f] = Head(hubQueue[f])]
            /\ hubQueue' = [hubQueue EXCEPT ![f] = Tail(hubQueue[f])]
            /\ UNCHANGED fpc
       ELSE /\ fEvent' = [fEvent EXCEPT ![f] = NoEvent]
            /\ fpc' = [fpc EXCEPT ![f] = "get"]
            /\ UNCHANGED hubQueue
    /\ UNCHANGED <<hubSubscribers, hubTs, streamVars, idemVars, otherVars>>

\* v2_events_stream up to the StreamingResponse: the header is parsed and
\* the stream subscribes.
v2_events_stream(s) ==
    /\ spc[s] = "idle"
    /\ \E h \in LastEventIds :
          /\ last_event_id' = [last_event_id EXCEPT ![s] = h]
          /\ last_cursor' = [last_cursor EXCEPT ![s] = IF h = "" THEN Null ELSE int(h)]
    /\ subscribers' = subscribers \cup {s}
    /\ spc' = [spc EXCEPT ![s] = "gen"]
    /\ UNCHANGED <<hubVars, forwarderVars, cursor, replay, queue, issued, overflow,
                   last_sent, resyncCursor, replayBuf, frames, inRing, snapshot,
                   idemVars, otherVars>>

\* allocate_cursor for stream s's needs_resync frame.
allocate_cursor(s) ==
    /\ cursor' = NextCursor(cursor)
    /\ issued' = Append(issued, cursor')
    /\ resyncCursor' = [resyncCursor EXCEPT ![s] = cursor']
    /\ spc' = [spc EXCEPT ![s] = "resync"]
    /\ UNCHANGED <<replayBuf, snapshot>>

\* _gen from its start to its first suspension: allocate_cursor for an
\* unparsable header or an unavailable replay, else replay_from's list.
gen_start(s) ==
    /\ spc[s] = "gen"
    /\ IF last_event_id[s] = ""
       THEN /\ spc' = [spc EXCEPT ![s] = "live"]
            /\ UNCHANGED <<cursor, issued, resyncCursor, replayBuf, inRing, snapshot>>
       ELSE IF last_cursor[s] = Null
       THEN /\ cursor < MaxCursor
            /\ allocate_cursor(s)
            /\ UNCHANGED inRing
       ELSE LET r == replay_from(replay, last_cursor[s][1])
            IN  /\ inRing' = [inRing EXCEPT ![s] = last_cursor[s][1] \in Cursors(replay)]
                /\ IF r.null
                   THEN /\ cursor < MaxCursor
                        /\ allocate_cursor(s)
                   ELSE /\ replayBuf' = [replayBuf EXCEPT ![s] = r.items]
                        /\ snapshot' = [snapshot EXCEPT ![s] = cursor]
                        /\ spc' = [spc EXCEPT ![s] = IF r.items = <<>> THEN "live" ELSE "replay"]
                        /\ UNCHANGED <<cursor, issued, resyncCursor>>
    /\ UNCHANGED <<hubVars, forwarderVars, replay, subscribers, queue, overflow,
                   last_event_id, last_cursor, last_sent, frames, idemVars,
                   otherVars>>

\* _gen yields the needs_resync frame.
gen_resync(s) ==
    /\ spc[s] = "resync"
    /\ frames' = [frames EXCEPT ![s] =
                     Append(@, [ type |-> "needs_resync", eventId |-> resyncCursor[s],
                                 reason |-> IF last_cursor[s] = Null
                                            THEN "invalid_last_event_id"
                                            ELSE "replay_unavailable" ])]
    /\ last_sent' = [last_sent EXCEPT ![s] = resyncCursor[s]]
    /\ spc' = [spc EXCEPT ![s] = "live"]
    /\ UNCHANGED <<hubVars, forwarderVars, busState, last_event_id, last_cursor,
                   resyncCursor, replayBuf, inRing, snapshot, idemVars,
                   otherVars>>

\* The frame of an event item.
EventFrame(item) == [type |-> item.event.type, eventId |-> item.cursor, reason |-> None]

\* _gen yields the next item of the replay.
gen_replay(s) ==
    /\ spc[s] = "replay"
    /\ frames' = [frames EXCEPT ![s] = Append(@, EventFrame(Head(replayBuf[s])))]
    /\ last_sent' = [last_sent EXCEPT ![s] = Head(replayBuf[s]).cursor]
    /\ replayBuf' = [replayBuf EXCEPT ![s] = Tail(replayBuf[s])]
    /\ spc' = [spc EXCEPT ![s] = IF Tail(replayBuf[s]) = <<>> THEN "live" ELSE "replay"]
    /\ UNCHANGED <<hubVars, forwarderVars, busState, last_event_id, last_cursor,
                   resyncCursor, inRing, snapshot, idemVars, otherVars>>

\* The live loop takes an item from the queue and yields it unless it is
\* not newer than the last frame.
gen_live(s) ==
    /\ spc[s] = "live"
    /\ queue[s] # <<>>
    /\ LET item == Head(queue[s])
       IN  IF AlreadySent(item, last_sent[s])
           THEN UNCHANGED <<frames, last_sent>>
           ELSE /\ frames' = [frames EXCEPT ![s] = Append(@, EventFrame(item))]
                /\ last_sent' = [last_sent EXCEPT ![s] = item.cursor]
    /\ queue' = [queue EXCEPT ![s] = Tail(queue[s])]
    /\ UNCHANGED <<hubVars, forwarderVars, cursor, replay, subscribers, issued,
                   overflow, spc, last_event_id, last_cursor, resyncCursor,
                   replayBuf, inRing, snapshot, idemVars, otherVars>>

\* The client goes away while _gen is suspended: finally, unsubscribe().
gen_close(s) ==
    /\ spc[s] \in {"resync", "replay", "live"}
    /\ subscribers' = subscribers \ {s}
    /\ queue' = [queue EXCEPT ![s] = <<>>]
    /\ replayBuf' = [replayBuf EXCEPT ![s] = <<>>]
    /\ spc' = [spc EXCEPT ![s] = "closed"]
    /\ UNCHANGED <<hubVars, forwarderVars, cursor, replay, issued, overflow,
                   last_event_id, last_cursor, last_sent, resyncCursor, frames,
                   inRing, snapshot, idemVars, otherVars>>

\* The client goes away after v2_events_stream has returned its
\* StreamingResponse and before _gen has run its first step (the response
\* start cannot be sent): the generator is closed unstarted, its try block
\* was never entered and its finally does not run.
gen_close_unstarted(s) ==
    /\ spc[s] = "gen"
    /\ spc' = [spc EXCEPT ![s] = "closed"]
    /\ UNCHANGED <<hubVars, forwarderVars, busState, last_event_id, last_cursor,
                   last_sent, resyncCursor, replayBuf, frames, inRing, snapshot,
                   idemVars, otherVars>>

\* Shutdown cancels the forwarder in one of its awaits: finally,
\* unsubscribe().
forward_cancel(f) ==
    /\ fpc[f] \in {"get", "publish"}
    /\ hubSubscribers' = hubSubscribers \ {f}
    /\ hubQueue' = [hubQueue EXCEPT ![f] = <<>>]
    /\ fEvent' = [fEvent EXCEPT ![f] = NoEvent]
    /\ fpc' = [fpc EXCEPT ![f] = "cancelled"]
    /\ UNCHANGED <<hubTs, busState, streamVars, idemVars, otherVars>>

\* ----------------------------------------------------------- rate limiter
\* min(a, b)
Min(a, b) == IF a <= b THEN a ELSE b

\* self._capacity, in token units, and self._rate, in units per tick.
Capacity == Max(0, Burst) * TokenUnit
Rate == Max(0, RateUnits)

\* The keys the limiter is asked about: the credentials of the callers.
LimiterKeys == {"dev-token", "other-token"}
\* The costs of the calls, in token units: one token, and one and a half.
Costs == {TokenUnit, TokenUnit + 1}

\* Faulty variant of the refill: the bucket is not capped at its capacity.
RefillUncapped(tokens, elapsed) == tokens + elapsed * Rate

\* bucket.tokens = min(self._capacity, bucket.tokens + elapsed * self._rate)
Refill(tokens, elapsed) == Min(Capacity, tokens + elapsed * Rate)

\* int((deficit / self._rate) * 1000.0) + 1
RetryAfterMs(deficit) == (deficit * MsPerTick) \div Rate + 1

NoAllow == [key |-> None, allowed |-> FALSE, retry_after_ms |-> 0, cost |-> 0]

InitLimiter ==
    /\ buckets = [k \in LimiterKeys |-> Null]
    /\ monotonic = 0
    /\ admitted = [k \in LimiterKeys |-> [t \in 0..MaxMonotonic |-> 0]]
    /\ allowResult = NoAllow

\* TokenBucketLimiter.allow_with_retry_after_ms(key, cost=cost): the bucket
\* after the call and the pair the call returns.
allow_with_retry_after_ms(key, cost) ==
    LET bucket == IF buckets[key] = Null
                  THEN [tokens |-> Capacity, updated_at |-> monotonic]
                  ELSE buckets[key][1]
        elapsed == monotonic - bucket.updated_at
        tokens == Refill(bucket.tokens, elapsed)
        deficit == Max(0, cost - tokens)
    IN  IF tokens >= cost
        THEN /\ buckets' = [buckets EXCEPT ![key] =
                               <<[tokens |-> tokens - cost, updated_at |-> monotonic]>>]
             /\ admitted' = [admitted EXCEPT ![key][monotonic] = @ + cost]
             /\ allowResult' = [key |-> key, allowed |-> TRUE, retry_after_ms |-> 0,
                                cost |-> cost]
        ELSE /\ buckets' = [buckets EXCEPT ![key] =
                               <<[tokens |-> tokens, updated_at |-> monotonic]>>]
             /\ UNCHANGED admitted
             /\ allowResult' = [key |-> key, allowed |-> FALSE,
                                retry_after_ms |-> IF Rate <= 0 THEN 0
                                                   ELSE RetryAfterMs(deficit),
                                cost |-> cost]

\* A caller asks the limiter.
allow ==
    /\ \E key \in LimiterKeys, cost \in Costs : allow_with_retry_after_ms(key, cost)
    /\ UNCHANGED <<monotonic, idemVars, busVars, exLimVars>>

\* The monotonic clock moves on by a tick.
MonotonicTick ==
    /\ monotonic < MaxMonotonic
    /\ monotonic' = monotonic + 1
    /\ UNCHANGED <<buckets, admitted, allowResult, idemVars, busVars, exLimVars>>

NextLimiter ==
    \/ allow
    \/ MonotonicTick

\* ------------------------------------------------------------- v2_actions
\* GATEWAY_AUTH_TOKENS and GATEWAY_API_KEYS of the configuration.
AuthTokens == {"dev-token"}
ApiKeys == {}

\* The POST /v2/actions requests the d-th caller may send: the X-Request-Id
\* and Idempotency-Key headers, the body's requestId and idempotencyKey, the
\* bearer token and the API key (None: absent or empty), and the action.
\* The first caller varies the headers against the body, the others the
\* credentials, the key and the action.
HttpRequests(d) ==
    IF d = 1
    THEN [ x_request_id : {None, "r-h"},
           requestId : {None, "r-h", "r-b"},
           idempotency_key_header : {None, "k1"},
           idempotencyKey : {None, "k1", "k2"},
           bearer : {None, "dev-token", "wrong-token"},
           x_api_key : {None},
           payload : PayloadsFor(d) ]
    ELSE [ x_request_id : {None},
           requestId : {None},
           idempotency_key_header : {None},
           idempotencyKey : {None, "k1", "k2"},
           bearer : {None, "dev-token"},
           x_api_key : {None, "dev-key"},
           payload : PayloadsFor(d) ]
NoHttp == [payload |-> [action |-> None]]

\* Python's `a or b` on header values.
Or(a, b) == IF a # None THEN a ELSE b

\* Faulty variant of the authentication: every caller is let in.
authenticate_anyone(h) == <<[scheme |-> "bearer", credential |-> "dev-token"]>>

\* authenticate_v2: Null, or the AuthContext.
authenticate_v2(h) ==
    IF h.bearer # None /\ h.bearer \in AuthTokens
    THEN <<[scheme |-> "bearer", credential |-> h.bearer]>>
    ELSE IF h.x_api_key # None /\ h.x_api_key \in ApiKeys
    THEN <<[scheme |-> "api_key", credential |-> h.x_api_key]>>
    ELSE Null

\* The two mismatch tests of v2_actions.
RequestIdMismatch(h) ==
    h.x_request_id # None /\ h.requestId # None /\ h.x_request_id # h.requestId
IdempotencyKeyMismatch(h) ==
    /\ h.idempotency_key_header # None /\ h.idempotencyKey # None
    /\ h.idempotency_key_header # h.idempotencyKey

\* headers["X-Request-Id"] = x_request_id, if there is one.
XRequestIdHeader(h) ==
    IF h.x_request_id # None THEN {<<"X-Request-Id", h.x_request_id>>} ELSE {}

\* headers["Retry-After"] = str(max(1, int((retry_after_ms + 999) / 1000)))
RetryAfterHeader(retry_after_ms) ==
    IF retry_after_ms > 0
    THEN {<<"Retry-After", ToString(Max(1, (retry_after_ms + 999) \div 1000))>>}
    ELSE {}

\* The empty details of an error.
EmptyDict == [k \in {} |-> k]

\* v2_actions answers without calling the dispatcher.
Reject(d, resp) ==
    /\ returned' = Return(d, resp)
    /\ dpc' = [dpc EXCEPT ![d] = "done"]
    /\ UNCHANGED <<rows, now, ticks, req, mipNow, inserted, response, insertSaw,
                   cpc, cToDelete>>

\* v2_actions up to the call of the dispatcher: the mismatch tests, the
\* authentication and the limiter.
v2_actions(d) ==
    /\ dpc[d] = "idle"
    /\ \E h \in HttpRequests(d) :
          LET rid == Or(h.x_request_id, h.requestId)
              key == Or(h.idempotency_key_header, h.idempotencyKey)
              act == h.payload.action
              auth == authenticate_v2(h)
          IN  /\ http' = [http EXCEPT ![d] = h]
              /\ IF RequestIdMismatch(h)
                 THEN /\ Reject(d, ErrorResponse(h.x_request_id, act, 400,
                                   "request_id_mismatch",
                                   [xRequestId |-> h.x_request_id, requestId |-> h.requestId],
                                   XRequestIdHeader(h)))
                      /\ UNCHANGED limVars
                 ELSE IF IdempotencyKeyMismatch(h)
                 THEN /\ Reject(d, ErrorResponse(rid, act, 400, "invalid_idempotency_key",
                                   [idempotencyKeyHeader |-> h.idempotency_key_header,
                                    idempotencyKeyBody |-> h.idempotencyKey],
                                   XRequestIdHeader(h)))
                      /\ UNCHANGED limVars
                 ELSE IF auth = Null
                 THEN /\ Reject(d, ErrorResponse(rid, act, 401, "unauthorized", EmptyDict,
                                   XRequestIdHeader(h)))
                      /\ UNCHANGED limVars
                 ELSE /\ allow_with_retry_after_ms(auth[1].credential, TokenUnit)
                      /\ UNCHANGED monotonic
                      /\ IF allowResult'.allowed
                         THEN /\ req' = [req EXCEPT ![d] =
                                            [auth |-> auth[1], payload |-> h.payload,
                                             request_id |-> rid, idempotency_key |-> key]]
                              /\ dpc' = [dpc EXCEPT ![d] = "admitted"]
                              /\ returned' = NoReturn
                              /\ UNCHANGED <<rows, now, ticks, mipNow, inserted, response,
                                             insertSaw, cpc, cToDelete>>
                         ELSE Reject(d, ErrorResponse(rid, act, 429, "rate_limited",
                                        [retryAfterMs |-> allowResult'.retry_after_ms],
                                        XRequestIdHeader(h)
                                          \cup RetryAfterHeader(allowResult'.retry_after_ms)))
    /\ UNCHANGED <<busVars, exRouterVars>>

\* v2_actions calls dispatcher.dispatch for the admitted request.
v2_dispatch(d) ==
    /\ dpc[d] = "admitted"
    /\ dispatch_call(d, req[d].auth, req[d].idempotency_key, req[d].payload,
                     req[d].request_id)
    /\ UNCHANGED otherVars

\* A request on the v1 action endpoint asks the limiter:
\* state.limiter.allow(auth.credential).
v1_allow ==
    /\ \E token \in AuthTokens : allow_with_retry_after_ms(token, TokenUnit)
    /\ UNCHANGED <<monotonic, idemVars, busVars, exLimVars>>

\* The v2 action endpoint with its dispatcher, next to callers of the v1
\* endpoint, which ask the same limiter, within one tick of the clock.
NextActions ==
    \/ \E d \in Dispatches : v2_actions(d)
    \/ \E d \in Dispatches : v2_dispatch(d)
    \/ \E d \in Dispatches : mark_in_progress_get(d)
    \/ \E d \in Dispatches : dispatch_impl(d)
    \/ \E d \in Dispatches : mark_completed(d)
    \/ v1_allow

InitRouter == http = [d \in Dispatches |-> NoHttp]

\* ------------------------------------------------------------------------
\* The inventory store: tables resources and name_index (db.py), written by
\* the snapshot task and by the event task of hue_sync.py
\* ------------------------------------------------------------------------
\* A display name is a string, here a sequence of characters.
Rids == {"r1", "r2"}
RtypeOf == [rid \in Rids |-> IF rid = "r1" THEN "light" ELSE "room"]
Rtypes == {"light", "room"}
NameStrings == {<<" ">>, <<"A">>, <<"b", " ", " ", "A">>}
\* _extract_name: Null (NULL in the table), or <<the name>>.
Names == {Null} \cup {<<n>> : n \in NameStrings}
NoResource == [rtype |-> None]
NoRef == [rid |-> None]

lower(c) == IF c = "A" THEN "a" ELSE c
\* Character i of s belongs to " ".join(s.strip().split()): it is no space,
\* or it is the first space after a word that another word follows.
Kept(s, i) ==
    \/ s[i] # " "
    \/ /\ i > 1 /\ s[i - 1] # " "
       /\ \E j \in (i + 1)..Len(s) : s[j] # " "
RECURSIVE JoinSplit(_, _)
JoinSplit(s, i) ==
    IF i > Len(s) THEN <<>>
    ELSE (IF Kept(s, i) THEN <<s[i]>> ELSE <<>>) \o JoinSplit(s, i + 1)
\* " ".join(str(name).strip().lower().split())
name_norm(name) == JoinSplit([i \in DOMAIN name |-> lower(name[i])], 1)

\* DELETE FROM name_index
DeleteAll(index) == {}
\* DELETE FROM name_index WHERE rid = ?
delete_name_index_for_rid(index, rid) == {row \in index : row[3] # rid}
\* INSERT OR IGNORE INTO name_index
insert_name_index(index, rtype, norm, rid) == index \cup {<<rtype, norm, rid>>}
\* INSERT INTO resources ... ON CONFLICT(rid) DO UPDATE
Upsert(table, rid, rtype, name) ==
    [table EXCEPT ![rid] = [rtype |-> rtype, name |-> name]]
\* SELECT ni.name_norm, ni.rid, r.name FROM name_index ni
\* LEFT JOIN resources r ON r.rid = ni.rid WHERE ni.rtype = ?
CandidatesOf(index, rtype) ==
    {<<row[2], row[3],
       IF resources[row[3]] = NoResource THEN Null ELSE resources[row[3]].name>> :
        row \in {r \in index : r[1] = rtype}}
Candidates(rtype) == CandidatesOf(name_index, rtype)

InitStore ==
    /\ resources = [rid \in Rids |-> NoResource]
    /\ name_index = {}
    /\ syncpc = "idle"
    /\ rebuildRows = {}
    /\ indexBefore = {}
    /\ eventpc = "idle"
    /\ ref = NoRef
    /\ candidates = [rtype |-> None]

\* sync_core_resources: one item of a fetched list is upserted.
sync_upsert ==
    /\ syncpc \in {"idle", "upserting"}
    /\ \E rid \in Rids, name \in Names :
          resources' = Upsert(resources, rid, RtypeOf[rid], name)
    /\ syncpc' = "upserting"
    /\ UNCHANGED <<name_index, rebuildRows, indexBefore, eventpc, ref, candidates>>
    /\ UNCHANGED <<idemVars, busVars, exStoreVars>>

\* sync_core_resources: hue.get_json raises for a later resource type; the
\* exception leaves the function, resync_loop and sse_ingest_loop swallow it.
sync_fail ==
    /\ syncpc = "upserting"
    /\ syncpc' = "idle"
    /\ UNCHANGED <<resources, name_index, rebuildRows, indexBefore, eventpc, ref,
                   candidates>>
    /\ UNCHANGED <<idemVars, busVars, exStoreVars>>

\* sync_core_resources: db.commit(), then rebuild_name_index's first
\* statement, DELETE FROM name_index.
rebuild_delete ==
    /\ syncpc \in {"idle", "upserting"}
    /\ indexBefore' = name_index
    /\ name_index' = DeleteAll(name_index)
    /\ syncpc' = "rebuild_select"
    /\ UNCHANGED <<resources, rebuildRows, eventpc, ref, candidates>>
    /\ UNCHANGED <<idemVars, busVars, exStoreVars>>

\* rebuild_name_index: SELECT rid, rtype, name FROM resources WHERE name IS
\* NOT NULL, and fetchall.
rebuild_select ==
    /\ syncpc = "rebuild_select"
    /\ rebuildRows' = {<<rid, resources[rid].rtype, resources[rid].name[1]>> :
                          rid \in {r \in Rids : /\ resources[r] # NoResource
                                               /\ resources[r].name # Null}}
    /\ syncpc' = "rebuild_insert"
    /\ UNCHANGED <<resources, name_index, indexBefore, eventpc, ref,
                   candidates>>
    /\ UNCHANGED <<idemVars, busVars, exStoreVars>>

\* rebuild_name_index: one round of the loop over rows.
rebuild_insert ==
    /\ syncpc = "rebuild_insert"
    /\ \E row \in rebuildRows :
          /\ rebuildRows' = rebuildRows \ {row}
          /\ name_index' = IF name_norm(row[3]) = <<>> THEN name_index
                           ELSE insert_name_index(name_index, row[2],
                                                  name_norm(row[3]), row[1])
    /\ UNCHANGED <<resources, syncpc, indexBefore, eventpc, ref, candidates>>
    /\ UNCHANGED <<idemVars, busVars, exStoreVars>>

\* rebuild_name_index: the loop is over, commit and return.
rebuild_commit ==
    /\ syncpc = "rebuild_insert"
    /\ rebuildRows = {}
    /\ syncpc' = "idle"
    /\ indexBefore' = {}
    /\ UNCHANGED <<resources, name_index, rebuildRows, eventpc, ref, candidates>>
    /\ UNCHANGED <<idemVars, busVars, exStoreVars>>

\* _process_bridge_event_message, event type delete or remove:
\* delete_resource's first statement.
event_delete_index ==
    /\ eventpc = "idle"
    /\ \E rid \in Rids :
          /\ ref' = [rid |-> rid, rtype |-> RtypeOf[rid], name |-> Null]
          /\ name_index' = delete_name_index_for_rid(name_index, rid)
    /\ eventpc' = "delete_resource"
    /\ UNCHANGED <<resources, syncpc, rebuildRows, indexBefore, candidates>>
    /\ UNCHANGED <<idemVars, busVars, exStoreVars>>

\* delete_resource's second statement, the commit, and the return to the loop
\* (the event published on the hub is EventHub_publish's).
event_delete_resource ==
    /\ eventpc = "delete_resource"
    /\ resources' = [resources EXCEPT ![ref.rid] = NoResource]
    /\ eventpc' = "idle"
    /\ ref' = NoRef
    /\ UNCHANGED <<name_index, syncpc, rebuildRows, indexBefore, candidates>>
    /\ UNCHANGED <<idemVars, busVars, exStoreVars>>

\* _process_bridge_event_message, any other event type: the resource is
\* fetched and upserted, and committed.
event_upsert ==
    /\ eventpc = "idle"
    /\ \E rid \in Rids, name \in Names :
          /\ ref' = [rid |-> rid, rtype |-> RtypeOf[rid], name |-> name]
          /\ resources' = Upsert(resources, rid, RtypeOf[rid], name)
    /\ eventpc' = "delete_name_index"
    /\ UNCHANGED <<name_index, syncpc, rebuildRows, indexBefore, candidates>>
    /\ UNCHANGED <<idemVars, busVars, exStoreVars>>

\* `if name:` and `if name_norm:` of _process_bridge_event_message
HasNameNorm(name) == name # Null /\ name[1] # <<>> /\ name_norm(name[1]) # <<>>

\* db.delete_name_index_for_rid(rid)
event_delete_name_index ==
    /\ eventpc = "delete_name_index"
    /\ name_index' = delete_name_index_for_rid(name_index, ref.rid)
    /\ IF HasNameNorm(ref.name)
       THEN eventpc' = "insert_name_index" /\ ref' = ref
       ELSE eventpc' = "idle" /\ ref' = NoRef
    /\ UNCHANGED <<resources, syncpc, rebuildRows, indexBefore, candidates>>
    /\ UNCHANGED <<idemVars, busVars, exStoreVars>>

\* db.insert_name_index(rtype, name_norm, rid), and the commit
event_insert_name_index ==
    /\ eventpc = "insert_name_index"
    /\ name_index' = insert_name_index(name_index, ref.rtype,
                                       name_norm(ref.name[1]), ref.rid)
    /\ eventpc' = "idle"
    /\ ref' = NoRef
    /\ UNCHANGED <<resources, syncpc, rebuildRows, indexBefore, candidates>>
    /\ UNCHANGED <<idemVars, busVars, exStoreVars>>

\* A name resolution reads the index: db.list_name_candidates(rtype).
list_name_candidates ==
    /\ \E rtype \in Rtypes :
          candidates' = [rtype |-> rtype, rows |-> Candidates(rtype),
                         rebuilding |-> syncpc \in {"rebuild_select", "rebuild_insert"}]
    /\ UNCHANGED <<resources, name_index, syncpc, rebuildRows,
                   indexBefore, eventpc, ref>>
    /\ UNCHANGED <<idemVars, busVars, exStoreVars>>

\* The two tasks that write the tables.
NextStore ==
    \/ sync_upsert
    \/ sync_fail
    \/ rebuild_delete
    \/ rebuild_select
    \/ rebuild_insert
    \/ rebuild_commit
    \/ event_delete_index
    \/ event_delete_resource
    \/ event_upsert
    \/ event_delete_name_index
    \/ event_insert_name_index

\* The snapshot task next to a reader of the index.
NextRebuild ==
    \/ sync_upsert
    \/ sync_fail
    \/ rebuild_delete
    \/ rebuild_select
    \/ rebuild_insert
    \/ rebuild_commit
    \/ list_name_candidates

\* ------------------------------------------------------------------------
\* Name resolution: _resolve_name of actions.py and of v2/dispatcher.py
\* ------------------------------------------------------------------------
\* Scores and thresholds are counted in hundredths; candidate i of
\* list_name_candidates has rid i.
Scores == {40, 89, 90, 94, 95}
Configs ==
    [fuzzy_match_threshold : {50, 90},
     fuzzy_match_autopick_threshold : {95},
     fuzzy_match_margin : {0, 5}]
DefaultConfig ==
    [fuzzy_match_threshold |-> 90, fuzzy_match_autopick_threshold |-> 95,
     fuzzy_match_margin |-> 5]
Apis == {"v1", "v2"}
NotResolved == [kind |-> None]

\* scored: the tuples (score, rid) in the order of the candidates
Scored(sc) == [i \in DOMAIN sc |-> [score |-> sc[i], rid |-> i]]
\* list.sort(key=score, reverse=True) is stable: an item goes behind the
\* items whose score is not smaller.
InsertDesc(x, sorted) ==
    LET k == Cardinality({i \in DOMAIN sorted : sorted[i].score >= x.score})
    IN  SubSeq(sorted, 1, k) \o <<x>> \o SubSeq(sorted, k + 1, Len(sorted))
RECURSIVE SortDesc(_, _)
SortDesc(seq, n) ==
    IF n = 0 THEN <<>> ELSE InsertDesc(seq[n], SortDesc(seq, n - 1))
\* Faulty variant: the runner-up is ignored.
NoSecondScore(scored) == 0
\* second_score = scored[1][0] if len(scored) > 1 else 0.0
SecondScore(scored) == IF Len(scored) > 1 THEN scored[2].score ELSE 0
\* Faulty variant: every candidate is listed.
TopAll(scored) == scored
\* top = scored[:5]
Top(scored) == SubSeq(scored, 1, Min(5, Len(scored)))
\* What _resolve_name returns (a _ResolvedName) or raises (an error).
ResolveName(api, cfg, sc) ==
    IF Len(sc) = 0
    THEN [kind |-> "error", api |-> api, status_code |-> 404, code |-> "not_found",
          candidates |-> <<>>]
    ELSE LET scored == SortDesc(Scored(sc), Len(sc))
             best == scored[1]
         IN  IF best.score >= cfg.fuzzy_match_autopick_threshold
             THEN [kind |-> "resolved", api |-> api, rid |-> best.rid,
                   confidence |-> best.score]
             ELSE IF /\ best.score >= cfg.fuzzy_match_threshold
                     /\ best.score - SecondScore(scored) >= cfg.fuzzy_match_margin
             THEN [kind |-> "resolved", api |-> api, rid |-> best.rid,
                   confidence |-> best.score]
             ELSE [kind |-> "error", api |-> api, status_code |-> 409,
                   code |-> "ambiguous_name",
                   candidates |-> [i \in DOMAIN Top(scored) |->
                                      [rid |-> Top(scored)[i].rid,
                                       confidence |-> Top(scored)[i].score]]]

InitResolve ==
    /\ config = DefaultConfig
    /\ scores = <<>>
    /\ resolved = NotResolved

\* One call of _resolve_name, of the v1 or of the v2 dispatcher.
resolve_name(api) ==
    /\ resolved = NotResolved
    /\ \E cfg \in Configs, n \in 0..MaxCandidates :
          \E sc \in [1..n -> Scores] :
             /\ config' = cfg
             /\ scores' = sc
             /\ resolved' = ResolveName(api, cfg, sc)
    /\ UNCHANGED <<idemVars, busVars, exResolveVars>>

NextResolve ==
    \/ resolve_name("v1")
    \/ resolve_name("v2")

\* ------------------------------------------------------------------------
\* clipv2.request and the other handlers that call the appliance
\* (actions.py, v2/dispatcher.py), and HueClient.request_jsonish
\* ------------------------------------------------------------------------
\* A path is a string, here a sequence of symbols: single characters, the
\* text clip/v2, and r for a run of other characters.
Alphabet == {"/", "clip/v2", ".", ":", "r"}
Paths == UNION {[1..n -> Alphabet] : n \in 0..MaxPathLen}
ClipPrefix == <<"/", "clip/v2", "/">>
AllowedMethods == {"GET", "POST", "PUT", "DELETE", "HEAD", "OPTIONS"}
Methods == AllowedMethods \cup {"PATCH"}
\* args.body: absent, a JSON object or array, or another JSON value
Bodies == {"none", "object", "string"}
\* What the appliance answers to one HTTP request: a status code, or 0 for
\* one of the httpx transport errors request_jsonish catches.
Answers == {0, 200, 404, 429, 503}
WriteActions == {"light.set", "grouped_light.set", "room.set", "zone.set",
                 "scene.activate", "bridge.pair"}
NoCall == [action |-> None]
NoResult == [status_code |-> 0]

\* str.startswith, and the `in` of strings
startswith(str, prefix) ==
    Len(str) >= Len(prefix) /\ SubSeq(str, 1, Len(prefix)) = prefix
Contains(str, sub) ==
    \E i \in 0..(Len(str) - Len(sub)) : SubSeq(str, i + 1, i + Len(sub)) = sub
\* Faulty variant: any path passes.
AnyPrefix(path) == TRUE
\* path.startswith("/clip/v2/"), and the pattern ^/clip/v2/.* of the schemas
HasClipPrefix(path) == startswith(path, ClipPrefix)
\* path.startswith("//") or "://" in path or ".." in path
HostOverride(path) ==
    \/ startswith(path, <<"/", "/">>)
    \/ Contains(path, <<":", "/", "/">>)
    \/ Contains(path, <<".", ".">>)
\* Faulty variant: every method is retried.
RetryAlways(method) == TRUE
\* retry = method in {"GET", "HEAD", "OPTIONS"}
Retry(method) == method \in {"GET", "HEAD", "OPTIONS"}
\* ActionDispatcher._clipv2_request up to the call of the appliance: the
\* code of the error it raises, or "ok".
ClipCheckV1(method, path, body) ==
    IF method \notin AllowedMethods THEN "invalid_method"
    ELSE IF ~HasClipPrefix(path) THEN "invalid_path"
    ELSE IF HostOverride(path) THEN "invalid_path"
    ELSE IF body = "string" THEN "invalid_body"
    ELSE "ok"
\* The v2 endpoint: V2ClipV2RequestArgs is validated when the body is parsed
\* (validation_exception_handler answers 400), then _clipv2_request runs.
ClipCheckV2(method, path, body) ==
    IF method \notin AllowedMethods \/ ~HasClipPrefix(path) \/ body = "string"
    THEN "invalid_args"
    ELSE IF HostOverride(path) THEN "invalid_args"
    ELSE "ok"
\* How the dispatchers answer what request_jsonish raises or returns.
UpstreamResult(answer) ==
    IF answer = 0 THEN [status_code |-> 424, code |-> "bridge_unreachable"]
    ELSE IF answer = 429 THEN [status_code |-> 429, code |-> "bridge_rate_limited"]
    ELSE IF answer >= 400 THEN [status_code |-> 502, code |-> "bridge_error"]
    ELSE [status_code |-> 200, code |-> "ok"]

InitClip ==
    /\ hcall = NoCall
    /\ hpc = "idle"
    /\ hretry = FALSE
    /\ attempt = 0
    /\ requests = 0
    /\ hresult = NoResult

\* A clipv2.request reaches its handler: it is refused with 400, or
\* request_jsonish is called.
clipv2_request(api) ==
    /\ hpc = "idle"
    /\ \E method \in Methods, path \in Paths, body \in Bodies :
          LET check == IF api = "v1" THEN ClipCheckV1(method, path, body)
                       ELSE ClipCheckV2(method, path, body)
          IN  /\ hcall' = [api |-> api, action |-> "clipv2.request",
                           method |-> method, path |-> path, body |-> body]
              /\ IF check = "ok"
                 THEN /\ hpc' = "request"
                      /\ hretry' = Retry(method)
                      /\ attempt' = 1
                      /\ hresult' = hresult
                 ELSE /\ hpc' = "done"
                      /\ hresult' = [status_code |-> 400, code |-> check]
                      /\ UNCHANGED <<hretry, attempt>>
    /\ requests' = requests
    /\ UNCHANGED <<idemVars, busVars, exClipVars>>

\* The write of light.set, grouped_light.set, room.set, zone.set (_set_state),
\* of scene.activate, and of bridge.pair (post_json): request_jsonish is
\* called without retry.
write_action ==
    /\ hpc = "idle"
    /\ \E action \in WriteActions :
          hcall' = [api |-> "v2", action |-> action,
                    method |-> IF action = "bridge.pair" THEN "POST" ELSE "PUT",
                    path |-> IF action = "bridge.pair" THEN <<"/", "api">>
                             ELSE <<"/", "clip/v2", "/", "r">>,
                    body |-> "object"]
    /\ hpc' = "request"
    /\ hretry' = FALSE
    /\ attempt' = 1
    /\ UNCHANGED <<requests, hresult>>
    /\ UNCHANGED <<idemVars, busVars, exClipVars>>

\* request_jsonish: one round of `for attempt in range(1, attempts + 1)`.
request_jsonish ==
    /\ hpc = "request"
    /\ LET attempts == IF hretry THEN RetryMaxAttempts ELSE 1
       IN  \E answer \in Answers :
              LET should_retry ==
                      IF answer = 0 THEN attempt # attempts
                      ELSE /\ answer >= 400
                           /\ hretry /\ (answer = 429 \/ (500 <= answer /\ answer <= 599))
                           /\ attempt < attempts
              IN  /\ requests' = requests + 1
                  /\ IF should_retry
                     THEN /\ attempt' = attempt + 1
                          /\ UNCHANGED <<hpc, hresult>>
                     ELSE /\ hpc' = "done"
                          /\ hresult' = UpstreamResult(answer)
                          /\ attempt' = attempt
    /\ UNCHANGED <<hcall, hretry>>
    /\ UNCHANGED <<idemVars, busVars, exClipVars>>

NextClip ==
    \/ clipv2_request("v1")
    \/ clipv2_request("v2")
    \/ write_action
    \/ request_jsonish

\* ------------------------------------------------------------------------
\* actions.batch: V2Dispatcher._actions_batch
\* ------------------------------------------------------------------------
StepActions == {"bridge.set_host", "resolve.by_name"}
\* What self.dispatch answers for a step: status code and, in the body, ok
\* and the error's code ("" without an error).
StepResponses ==
    {[status_code |-> 200, ok |-> TRUE, code |-> ""],
     [status_code |-> 404, ok |-> FALSE, code |-> "not_found"],
     [status_code |-> 409, ok |-> FALSE, code |-> "ambiguous_name"],
     [status_code |-> 424, ok |-> FALSE, code |-> "bridge_unreachable"]}
NoBatchResponse == [status_code |-> 0]

\* step_result (the step's requestId and idempotencyKey, derived from the
\* batch's, are left out)
StepResult(i, action, resp) ==
    [index |-> i, action |-> action, ok |-> resp.ok,
     status |-> resp.status_code, error |-> resp.code]
\* Faulty variant: the loop never stops early.
NeverBreak(continue, status_code) == FALSE
\* Faulty variant: the loop stops at a failure whatever continueOnError is.
BreakOnAnyError(continue, status_code) == status_code >= 400
\* if not continue_on_error and resp.status_code >= 400: break
Break(continue, status_code) == ~continue /\ status_code >= 400
\* The response after the loop: 207 with continueOnError, 200 when no step
\* failed, else the V2ActionError as _dispatch_impl answers it.
BatchResponse(continue, res, fail) ==
    IF continue
    THEN [status_code |-> 207, ok |-> TRUE, code |-> "",
          continueOnError |-> TRUE, steps |-> res, failedStepIndex |-> Null]
    ELSE IF fail = Null
    THEN [status_code |-> 200, ok |-> TRUE, code |-> "",
          continueOnError |-> FALSE, steps |-> res, failedStepIndex |-> Null]
    ELSE [status_code |-> fail[1].failed_status, ok |-> FALSE,
          code |-> fail[1].failed_error,
          continueOnError |-> FALSE, steps |-> res,
          failedStepIndex |-> <<fail[1].failed_index>>]

InitBatch ==
    /\ bpc = "idle"
    /\ steps = <<>>
    /\ continue_on_error = FALSE
    /\ step_i = 0
    /\ results = <<>>
    /\ failed = Null
    /\ executed = <<>>
    /\ batch_response = NoBatchResponse

\* _actions_batch is called: a batch of at least one step.
actions_batch ==
    /\ bpc = "idle"
    /\ \E n \in 1..MaxSteps : \E acts \in [1..n -> StepActions] : steps' = acts
    /\ continue_on_error' \in BOOLEAN
    /\ bpc' = "loop"
    /\ step_i' = 0
    /\ UNCHANGED <<results, failed, executed, batch_response>>
    /\ UNCHANGED <<idemVars, busVars, exBatchVars>>

\* One round of `for i, step in enumerate(steps)`: the step is dispatched and
\* its result appended; after the last round, or at the break, the response
\* is built.
batch_step ==
    /\ bpc = "loop"
    /\ \E resp \in StepResponses :
          LET res == Append(results, StepResult(step_i, steps[step_i + 1], resp))
              fail == IF resp.status_code >= 400 /\ failed = Null
                      THEN <<[failed_index |-> step_i,
                              failed_status |-> resp.status_code,
                              failed_error |-> resp.code]>>
                      ELSE failed
          IN  /\ executed' = Append(executed, [index |-> step_i, response |-> resp])
              /\ results' = res
              /\ failed' = fail
              /\ IF Break(continue_on_error, resp.status_code) \/ step_i + 1 = Len(steps)
                 THEN /\ bpc' = "done"
                      /\ batch_response' = BatchResponse(continue_on_error, res, fail)
                      /\ step_i' = step_i
                 ELSE /\ step_i' = step_i + 1
                      /\ UNCHANGED <<bpc, batch_response>>
    /\ UNCHANGED <<steps, continue_on_error>>
    /\ UNCHANGED <<idemVars, busVars, exBatchVars>>

NextBatch ==
    \/ actions_batch
    \/ batch_step

\* --------------------------------------- the dispatchers' except clauses
\* str(err) of an exception.
ErrorMessages == {"", "boom", "timed out"}
\* The statuses of a HueUpstreamError.
UpstreamStatuses == {400, 404, 429, 500, 503}
\* request_id: absent, or the caller's.
EnvelopeRequestIds == {Null, <<"r1">>}
\* What the handler does: it returns a result, or raises one of the
\* dispatcher's own errors, an appliance error, or anything else.
Outcomes ==
    {[kind |-> "return", status_code |-> 200, code |-> "", message |-> ""]}
    \cup {[kind |-> "ActionError", status_code |-> 404, code |-> "not_found",
           message |-> "Resource not found"],
          [kind |-> "ActionError", status_code |-> 409,
           code |-> "link_button_not_pressed",
           message |-> "Link button not pressed"]}
    \cup [kind : {"HueTransportError"}, status_code : {0}, code : {""},
          message : ErrorMessages]
    \cup [kind : {"HueUpstreamError"}, status_code : UpstreamStatuses,
          code : {""}, message : {"body"}]
    \cup [kind : {"Exception"}, status_code : {0}, code : {""},
          message : ErrorMessages]

NoRaised == [kind |-> "", status_code |-> 0, code |-> "", message |-> ""]
\* A key the dict `details` does not have is Null.
NoDetails == [error |-> Null, status |-> Null, body |-> Null]
NoEnvelope == [requestId |-> Null, status_code |-> 0, ok |-> FALSE,
               code |-> "", message |-> "", details |-> NoDetails]

\* _error_response (v1) and _error (v2): the envelope of an error.
ErrorEnvelope(request_id, status_code, code, message, details) ==
    [requestId |-> request_id, status_code |-> status_code, ok |-> FALSE,
     code |-> code, message |-> message, details |-> details]

\* The clauses both dispatchers have in common: the handler's result, the
\* dispatcher's own error, HueTransportError and HueUpstreamError.
CommonEnvelope(request_id, r) ==
    CASE r.kind = "return" ->
            [requestId |-> request_id, status_code |-> 200, ok |-> TRUE,
             code |-> "", message |-> "", details |-> NoDetails]
      [] r.kind = "ActionError" ->
            ErrorEnvelope(request_id, r.status_code, r.code, r.message, NoDetails)
      [] r.kind = "HueTransportError" ->
            ErrorEnvelope(request_id, 424, "bridge_unreachable",
                          "Hue Bridge unreachable",
                          [NoDetails EXCEPT !.error = <<r.message>>])
      [] r.kind = "HueUpstreamError" ->
            ErrorEnvelope(request_id,
                          IF r.status_code = 429 THEN 429 ELSE 502,
                          IF r.status_code = 429 THEN "bridge_rate_limited"
                                                 ELSE "bridge_error",
                          "Hue Bridge returned an error",
                          [NoDetails EXCEPT !.status = <<r.status_code>>,
                                            !.body = <<r.message>>])

\* ActionDispatcher.dispatch, from the call of the handler on.
\* except Exception: ActionError(500, "internal_error", message=str(err)).
V1Envelope(request_id, r) ==
    IF r.kind = "Exception"
    THEN ErrorEnvelope(request_id, 500, "internal_error", r.message, NoDetails)
    ELSE CommonEnvelope(request_id, r)

\* V2Dispatcher._dispatch_impl, from the call of the handler on.
\* except Exception: V2ActionError(500, "internal_error", "Internal error",
\* details={"error": str(err)}).
V2Envelope(request_id, r) ==
    IF r.kind = "Exception"
    THEN ErrorEnvelope(request_id, 500, "internal_error", "Internal error",
                       [NoDetails EXCEPT !.error = <<r.message>>])
    ELSE CommonEnvelope(request_id, r)

InitErrors ==
    /\ epc = "idle"
    /\ eapi = "v1"
    /\ raised = NoRaised
    /\ envelope = NoEnvelope

\* `await handler(request_id, args, auth)` (v1) and the `if action == ...`
\* chain (v2): the handler returns or raises.
handler(api) ==
    /\ epc = "idle"
    /\ \E r \in Outcomes, request_id \in EnvelopeRequestIds :
          /\ raised' = r
          /\ envelope' = [NoEnvelope EXCEPT !.requestId = request_id]
    /\ eapi' = api
    /\ epc' = "handled"
    /\ UNCHANGED <<idemVars, busVars, exErrVars>>

\* The return and the except clauses of ActionDispatcher.dispatch.
dispatch_except ==
    /\ epc = "handled"
    /\ eapi = "v1"
    /\ envelope' = V1Envelope(envelope.requestId, raised)
    /\ epc' = "done"
    /\ UNCHANGED <<eapi, raised>>
    /\ UNCHANGED <<idemVars, busVars, exErrVars>>

\* The return and the except clauses of V2Dispatcher._dispatch_impl.
dispatch_impl_except ==
    /\ epc = "handled"
    /\ eapi = "v2"
    /\ envelope' = V2Envelope(envelope.requestId, raised)
    /\ epc' = "done"
    /\ UNCHANGED <<eapi, raised>>
    /\ UNCHANGED <<idemVars, busVars, exErrVars>>

NextErrors ==
    \/ \E api \in Apis : handler(api)
    \/ dispatch_except
    \/ dispatch_impl_except

\* ------------------------------------------------------------ bridge.pair
\* A JSON value where the handler looks at its type: an integer, a string,
\* something else (null, a list, an object), or a key the object lacks.
JsonInt(n) == [json |-> "int", int |-> n, str |-> ""]
JsonStr(t) == [json |-> "str", int |-> 0, str |-> t]
JsonOther == [json |-> "other", int |-> 0, str |-> ""]
JsonAbsent == [json |-> "absent", int |-> 0, str |-> ""]

\* err["type"] in the appliance's answer.
ErrorTypes == {JsonInt(101), JsonInt(1), JsonStr("101"), JsonStr("link"),
               JsonAbsent}
\* success["username"] in the appliance's answer.
Usernames == {JsonStr("appkey123"), JsonStr("appkey456"), JsonInt(7),
              JsonAbsent}

\* The body of the appliance's answer to POST /api (status below 400):
\* not a list, an empty list, or a list whose first entry is not an object
\* or is an object with or without the keys "error" and "success".
PairAnswers ==
    [shape : {"not_list", "empty_list", "entry_not_dict"},
     has_error : {FALSE}, error_is_dict : {FALSE}, type : {JsonAbsent},
     has_success : {FALSE}, success_is_dict : {FALSE}, username : {JsonAbsent}]
    \cup
    [shape : {"entry"},
     has_error : BOOLEAN, error_is_dict : BOOLEAN, type : ErrorTypes,
     has_success : BOOLEAN, success_is_dict : BOOLEAN, username : Usernames]

NoPairAnswer ==
    [shape |-> "", has_error |-> FALSE, error_is_dict |-> FALSE,
     type |-> JsonAbsent, has_success |-> FALSE, success_is_dict |-> FALSE,
     username |-> JsonAbsent]

\* int(err.get("type", 0)): <<n>>, or Null where int() raises (a string
\* that is no number: ValueError; null, a list, an object: TypeError).
IntOfType(type) ==
    CASE type.json = "absent" -> <<0>>
      [] type.json = "int" -> <<type.int>>
      [] type.json = "str" -> IF type.str = "101" THEN <<101>> ELSE Null
      [] OTHER -> Null

\* What _bridge_pair does with the answer: the handler's outcome, and the
\* key it stores (Null: it stores none).
PairOutcome(api, a) ==
    LET rejected == IF api = "v1" THEN "bridge_pairing_failed" ELSE "bridge_error"
        unexpected ==
            [outcome |-> [kind |-> "ActionError", status_code |-> 502,
                          code |-> rejected,
                          message |-> "Unexpected pairing response from bridge"],
             key |-> Null]
    IN  IF a.shape # "entry" THEN unexpected
        ELSE IF a.has_error
        THEN IF a.error_is_dict /\ IntOfType(a.type) = Null
             THEN [outcome |-> [kind |-> "Exception", status_code |-> 0,
                                code |-> "", message |-> "boom"],
                   key |-> Null]
             ELSE IF a.error_is_dict /\ IntOfType(a.type) = <<101>>
             THEN [outcome |-> [kind |-> "ActionError", status_code |-> 409,
                                code |-> "link_button_not_pressed",
                                message |-> "Press the Hue Bridge button and retry"],
                   key |-> Null]
             ELSE [outcome |-> [kind |-> "ActionError", status_code |-> 502,
                                code |-> rejected,
                                message |-> "Bridge rejected pairing request"],
                   key |-> Null]
        ELSE IF a.has_success /\ a.success_is_dict /\ a.username.json = "str"
        THEN [outcome |-> [kind |-> "return", status_code |-> 200, code |-> "",
                           message |-> ""],
              key |-> <<a.username.str>>]
        ELSE unexpected

NoPairResponse == [envelope |-> NoEnvelope, applicationKey |-> Null]

InitPair ==
    /\ ppc = "idle"
    /\ papi = "v1"
    /\ setting_application_key = Null
    /\ hue_application_key = Null
    /\ key_before = <<Null, Null>>
    /\ pair_answer = NoPairAnswer
    /\ pair_response = NoPairResponse

\* _bridge_pair up to `await self.hue.post_json("/api", ...)`.
bridge_pair(api) ==
    /\ ppc \in {"idle", "done"}
    /\ papi' = api
    /\ ppc' = "post"
    /\ key_before' = <<setting_application_key, hue_application_key>>
    /\ pair_answer' = NoPairAnswer
    /\ pair_response' = NoPairResponse
    /\ UNCHANGED <<setting_application_key, hue_application_key>>
    /\ UNCHANGED <<idemVars, busVars, exPairVars>>

\* The appliance answers, and _bridge_pair runs to its end: on a success
\* entry db.set_setting and hue.configure, else the raise; then the
\* dispatcher's return or except clause.
bridge_pair_answer ==
    /\ ppc = "post"
    /\ \E a \in PairAnswers :
          LET o == PairOutcome(papi, a)
          IN  /\ pair_answer' = a
              /\ IF o.key # Null
                 THEN /\ setting_application_key' = o.key
                      /\ hue_application_key' = o.key
                 ELSE UNCHANGED <<setting_application_key, hue_application_key>>
              /\ pair_response' =
                    [envelope |-> IF papi = "v1"
                                  THEN V1Envelope(Null, o.outcome)
                                  ELSE V2Envelope(Null, o.outcome),
                     applicationKey |-> o.key]
    /\ ppc' = "done"
    /\ UNCHANGED <<papi, key_before>>
    /\ UNCHANGED <<idemVars, busVars, exPairVars>>

NextPair ==
    \/ \E api \in Apis : bridge_pair(api)
    \/ bridge_pair_answer

\* ------------------------------------------------------ inventory.snapshot
\* payload.args.ifRevision: absent, or a revision.
IfRevisions == {Null, <<0>>, <<1>>}
Revisions == {0, 1}
\* `table` is history: the resources table when the answer was given.
InventoryResult(notModified, revision, stale, table) ==
    [notModified |-> notModified, revision |-> revision, stale |-> stale,
     served |-> TRUE, table |-> table]

\* db.get_setting_int(key, default=0)
get_setting_int(setting) == IF setting = Null THEN 0 ELSE setting[1]

\* No statement of the program writes settings["inventory_revision"]:
\* db.increment_setting_int has no caller.
InitInventory ==
    /\ inventory_revision = Null
    /\ reported = [r \in Revisions |-> Null]
    /\ inventory_result = [InventoryResult(FALSE, 0, FALSE, resources)
                             EXCEPT !.served = FALSE]

\* _inventory_snapshot: without host or key the stale, empty answer; with
\* ifRevision equal to the stored revision notModified; else the rooms,
\* zones and lights of the resources table.
inventory_snapshot ==
    /\ \E configured \in BOOLEAN, if_rev \in IfRevisions :
          LET revision == get_setting_int(inventory_revision)
          IN  IF ~configured
              THEN /\ inventory_result' =
                         InventoryResult(FALSE, revision, TRUE, resources)
                   /\ UNCHANGED reported
              ELSE IF if_rev # Null /\ if_rev[1] = revision
              THEN /\ inventory_result' =
                         InventoryResult(TRUE, revision, FALSE, resources)
                   /\ UNCHANGED reported
              ELSE /\ inventory_result' =
                         InventoryResult(FALSE, revision, FALSE, resources)
                   /\ reported' =
                         IF reported[revision] = Null
                         THEN [reported EXCEPT ![revision] = <<resources>>]
                         ELSE reported
    /\ UNCHANGED inventory_revision
    /\ UNCHANGED <<idemVars, busVars, exInvVars>>

\* The snapshot task and the deletions of the event task next to
\* inventory.snapshot.
NextInventory ==
    \/ sync_upsert
    \/ event_delete_index
    \/ event_delete_resource
    \/ inventory_snapshot

\* ----------------------------------------- _set_state and _verify_poll
\* Brightness in percent, colour temperature in kelvin, xy in hundredths.
\* The applied state of the model: every field, or `on` alone.
AppliedFull == [on |-> <<TRUE>>, brightness |-> <<50>>, colorTempK |-> <<2700>>,
                xy |-> <<[x |-> 30, y |-> 30]>>]
AppliedOn == [on |-> <<TRUE>>, brightness |-> Null, colorTempK |-> Null,
              xy |-> Null]
AppliedStates == {AppliedFull, AppliedOn}

\* What _parse_light_state makes of a GET's answer: a state that agrees
\* with AppliedFull within the tolerances of a light, and the states that
\* differ from it in one field.
ObservedBase == [on |-> <<TRUE>>, brightness |-> <<55>>, colorTempK |-> <<2900>>,
                 xy |-> <<[x |-> 39, y |-> 41]>>]
ObservedStates ==
    {ObservedBase}
    \cup {[ObservedBase EXCEPT !.on = v] : v \in {Null, <<FALSE>>}}
    \cup {[ObservedBase EXCEPT !.brightness = v] : v \in {Null, <<56>>, <<76>>}}
    \cup {[ObservedBase EXCEPT !.colorTempK = v] : v \in {Null, <<2901>>, <<3501>>}}
    \cup {[ObservedBase EXCEPT !.xy = v] : v \in {Null, <<[x |-> 40, y |-> 42]>>}}
\* The answers of hue.get_json: a resource, a body without one
\* ({"data": []} and the like), or an exception of the client.
GetAnswers ==
    [kind : {"data"}, state : ObservedStates]
    \cup [kind : {"no_data", "raise"}, state : {ObservedBase}]

\* target_rtype and implicit_verify of light.set, grouped_light.set, and of
\* room.set and zone.set.
VerifyTargets ==
    {[target_rtype |-> "light", implicit_verify |-> FALSE],
     [target_rtype |-> "grouped_light", implicit_verify |-> FALSE],
     [target_rtype |-> "grouped_light", implicit_verify |-> TRUE]}
\* payload.args.verify: mode, timeoutMs (ge=0), pollIntervalMs (ge=1).
VerifyOptions ==
    [mode : {"none", "poll"}, timeoutMs : {Null, <<0>>, <<500>>, <<1000>>},
     pollIntervalMs : {<<500>>, <<1000>>}]
\* How long an awaited request of the appliance takes, in milliseconds.
Durations == {0, 500}

Abs(n) == IF n < 0 THEN -n ELSE n

\* _tolerances_for; xyDistance 0.15 is 15 hundredths.
tolerances_for(rtype) ==
    [brightness |-> IF rtype \in {"grouped_light", "room", "zone"} THEN 25 ELSE 5,
     colorTempK |-> IF rtype \in {"grouped_light", "room", "zone"} THEN 800 ELSE 200,
     xyDistance |-> 15]

\* _compare_state: the keys of `mismatches`. dist > tol is compared by the
\* squares.
compare_state(applied, observed, rtype, verify_xy) ==
    LET tol == tolerances_for(rtype)
    IN  {f \in {"on"} :
            applied.on # Null /\ (observed.on = Null \/ observed.on # applied.on)}
        \cup {f \in {"brightness"} :
            applied.brightness # Null
            /\ (\/ observed.brightness = Null
                \/ Abs(observed.brightness[1] - applied.brightness[1]) > tol.brightness)}
        \cup {f \in {"colorTempK"} :
            applied.colorTempK # Null
            /\ (\/ observed.colorTempK = Null
                \/ Abs(observed.colorTempK[1] - applied.colorTempK[1]) > tol.colorTempK)}
        \cup {f \in {"xy"} :
            verify_xy /\ applied.xy # Null
            /\ (\/ observed.xy = Null
                \/ LET dx == observed.xy[1].x - applied.xy[1].x
                       dy == observed.xy[1].y - applied.xy[1].y
                   IN  dx * dx + dy * dy > tol.xyDistance * tol.xyDistance)}

\* int(getattr(verify, "timeoutMs", None) or (2500 if implicit_verify else
\* 2000)): None and 0 are both replaced.
TimeoutMs(verify, implicit_verify) ==
    IF verify.timeoutMs = Null \/ verify.timeoutMs = <<0>>
    THEN IF implicit_verify THEN 2500 ELSE 2000
    ELSE verify.timeoutMs[1]

\* max(10, int(poll_interval_ms))
Interval(verify) ==
    IF verify.pollIntervalMs[1] < 10 THEN 10 ELSE verify.pollIntervalMs[1]

\* verify_xy = not implicit_verify, where xy was applied
VerifyXy(r) == r.applied.xy # Null /\ ~r.implicit_verify

NoVerifyRequest ==
    [target_rtype |-> "", implicit_verify |-> FALSE, applied |-> AppliedOn,
     verify |-> [mode |-> "none", timeoutMs |-> Null, pollIntervalMs |-> <<500>>]]
NoHistory == [put_sent |-> FALSE, get_seen |-> FALSE, poll_started |-> 0,
              get_sent |-> 0, answer |-> "", state |-> ObservedBase]
NoSetResult == [status_code |-> 0, verified |-> FALSE, observed |-> Null,
                warnings |-> {}, mismatches |-> {}]

InitVerify ==
    /\ vpc = "idle"
    /\ vreq = NoVerifyRequest
    /\ vnow = 0
    /\ deadline = 0
    /\ last_observed = Null
    /\ verify_warnings = Null
    /\ vhistory = NoHistory
    /\ set_result = NoSetResult

\* _set_state up to the await of the PUT.
set_state ==
    /\ vpc = "idle"
    /\ \E t \in VerifyTargets, a \in AppliedStates, v \in VerifyOptions :
          vreq' = [target_rtype |-> t.target_rtype,
                   implicit_verify |-> t.implicit_verify,
                   applied |-> a, verify |-> v]
    /\ vhistory' = [NoHistory EXCEPT !.put_sent = TRUE]
    /\ vpc' = "put"
    /\ UNCHANGED <<vnow, deadline, last_observed, verify_warnings, set_result>>
    /\ UNCHANGED <<idemVars, busVars, exVerifyVars>>

\* The PUT returns or raises; without verification the result follows, with
\* it _verify_poll sets its deadline.
set_state_put ==
    /\ vpc = "put"
    /\ \E d \in Durations, raises \in BOOLEAN :
          /\ vnow' = vnow + d
          /\ IF raises
             THEN /\ set_result' = [NoSetResult EXCEPT !.status_code = 424]
                  /\ vpc' = "done"
                  /\ UNCHANGED <<deadline, vhistory>>
             ELSE IF vreq.verify.mode = "none"
             THEN /\ set_result' =
                        [NoSetResult EXCEPT !.status_code = 200,
                                            !.warnings = {"verify_skipped"}]
                  /\ vpc' = "done"
                  /\ UNCHANGED <<deadline, vhistory>>
             ELSE /\ deadline' = vnow + d + TimeoutMs(vreq.verify, vreq.implicit_verify)
                  /\ vhistory' = [vhistory EXCEPT !.poll_started = vnow + d]
                  /\ vpc' = "poll"
                  /\ UNCHANGED set_result
    /\ UNCHANGED <<vreq, last_observed, verify_warnings>>
    /\ UNCHANGED <<idemVars, busVars, exVerifyVars>>

\* The warnings of the result: those of _build_applied_payload and
\* _set_state (xy_verify_skipped) and those of _verify_poll.
ResultWarnings(r, warnings) ==
    (IF r.applied.xy # Null /\ r.implicit_verify THEN {"xy_verify_skipped"} ELSE {})
    \cup (IF warnings # Null THEN {"verify_mismatch"} ELSE {})

\* One round of _verify_poll's loop: the GET, the comparison, and the
\* return or the sleep.
verify_poll ==
    /\ vpc = "poll"
    /\ vnow <= deadline
    /\ \E d \in Durations, g \in GetAnswers :
          /\ vhistory' = [vhistory EXCEPT !.get_seen = TRUE, !.get_sent = vnow,
                                          !.answer = g.kind, !.state = g.state]
          /\ CASE g.kind = "raise" ->
                    /\ set_result' = [NoSetResult EXCEPT !.status_code = 424]
                    /\ vpc' = "done"
                    /\ vnow' = vnow + d
                    /\ UNCHANGED <<last_observed, verify_warnings>>
               [] g.kind = "no_data" ->
                    /\ vnow' = vnow + d + Interval(vreq.verify)
                    /\ UNCHANGED <<last_observed, verify_warnings, set_result, vpc>>
               [] g.kind = "data" ->
                    LET mismatches == compare_state(vreq.applied, g.state,
                                                    vreq.target_rtype, VerifyXy(vreq))
                    IN  /\ last_observed' = <<g.state>>
                        /\ IF mismatches = {}
                           THEN /\ set_result' =
                                      [status_code |-> 200, verified |-> TRUE,
                                       observed |-> <<g.state>>,
                                       warnings |-> ResultWarnings(vreq, verify_warnings),
                                       mismatches |-> IF verify_warnings = Null THEN {}
                                                      ELSE verify_warnings[1]]
                                /\ vpc' = "done"
                                /\ vnow' = vnow + d
                                /\ UNCHANGED verify_warnings
                           ELSE /\ verify_warnings' = <<mismatches>>
                                /\ vnow' = vnow + d + Interval(vreq.verify)
                                /\ UNCHANGED <<set_result, vpc>>
    /\ UNCHANGED <<vreq, deadline>>
    /\ UNCHANGED <<idemVars, busVars, exVerifyVars>>

\* The loop's condition fails: `return False, last_observed, warnings`.
verify_poll_timeout ==
    /\ vpc = "poll"
    /\ vnow > deadline
    /\ set_result' = [status_code |-> 200, verified |-> FALSE,
                      observed |-> last_observed,
                      warnings |-> ResultWarnings(vreq, verify_warnings),
                      mismatches |-> IF verify_warnings = Null THEN {}
                                     ELSE verify_warnings[1]]
    /\ vpc' = "done"
    /\ UNCHANGED <<vreq, vnow, deadline, last_observed, verify_warnings, vhistory>>
    /\ UNCHANGED <<idemVars, busVars, exVerifyVars>>

NextVerify ==
    \/ set_state
    \/ set_state_put
    \/ verify_poll
    \/ verify_poll_timeout

\* --------------------------- _build_light_payload, _build_applied_payload
\* Brightness is counted in twentieths of a percent: 1 is 0.05, 2 is 0.1,
\* 2000 is 100.0. The argument `brightness`: absent or null, something that
\* is no number, or a number.
BrightnessArgs ==
    {[json |-> "absent", n |-> 0], [json |-> "other", n |-> 0]}
    \cup [json : {"number"}, n : {-20, 0, 1, 2, 3, 1000, 2000, 2001}]
OnArgs == {Null, <<TRUE>>, <<FALSE>>}
V1LightActions == {"light.set", "grouped_light.set"}
V2LightActions == {"light.set", "grouped_light.set", "room.set", "zone.set"}

NoLightCall == [api |-> "", action |-> "", on |-> Null,
                brightness |-> [json |-> "absent", n |-> 0]]
NoLightPayload == [status_code |-> 0, brightness |-> Null, warnings |-> {}]

\* _build_light_payload: max(0.1, min(100.0, float(b))); 400 for a
\* brightness that is no number and for an empty payload.
build_light_payload(on, b) ==
    IF b.json = "other"
    THEN [status_code |-> 400, brightness |-> Null, warnings |-> {}]
    ELSE IF b.json = "absent"
    THEN IF on = Null
         THEN [status_code |-> 400, brightness |-> Null, warnings |-> {}]
         ELSE [status_code |-> 200, brightness |-> Null, warnings |-> {}]
    ELSE [status_code |-> 200, brightness |-> <<Max(2, Min(2000, b.n))>>,
          warnings |-> {}]

\* V2LightState: brightness is a float with ge=0.0 and le=100.0; the
\* request is answered 400 before the dispatcher sees it otherwise.
\* _build_applied_payload: clamped = max(0.0, min(100.0, b)), 0.0 becomes
\* 0.1, and a warning where clamped != b.
build_applied_payload(on, b) ==
    IF b.json = "other" \/ (b.json = "number" /\ (b.n < 0 \/ b.n > 2000))
    THEN [status_code |-> 400, brightness |-> Null, warnings |-> {}]
    ELSE IF b.json = "absent"
    THEN IF on = Null
         THEN [status_code |-> 400, brightness |-> Null, warnings |-> {}]
         ELSE [status_code |-> 200, brightness |-> Null, warnings |-> {}]
    ELSE LET c == Max(0, Min(2000, b.n))
             clamped == IF c = 0 THEN 2 ELSE c
         IN  [status_code |-> 200, brightness |-> <<clamped>>,
              warnings |-> IF clamped # b.n THEN {"clamped"} ELSE {}]

InitLight ==
    /\ light_call = NoLightCall
    /\ light_payload = NoLightPayload

\* v1 light.set and grouped_light.set, up to the PUT.
v1_light_set ==
    /\ \E action \in V1LightActions, on \in OnArgs, b \in BrightnessArgs :
          /\ light_call' = [api |-> "v1", action |-> action, on |-> on,
                            brightness |-> b]
          /\ light_payload' = build_light_payload(on, b)
    /\ UNCHANGED <<idemVars, busVars, exLightVars>>

\* v2 light.set, grouped_light.set, room.set and zone.set, up to the PUT.
v2_light_set ==
    /\ \E action \in V2LightActions, on \in OnArgs, b \in BrightnessArgs :
          /\ light_call' = [api |-> "v2", action |-> action, on |-> on,
                            brightness |-> b]
          /\ light_payload' = build_applied_payload(on, b)
    /\ UNCHANGED <<idemVars, busVars, exLightVars>>

NextLight ==
    \/ v1_light_set
    \/ v2_light_set

\* ------------------------------------------------ dispatches of several callers
InitScope == creator = [k \in RowKeys |-> Null]

\* The first request is the first caller's; the others are anyone's.
CallersFor(d) == IF d = 1 THEN AuthContexts ELSE Callers

\* A request of one of the callers reaches V2Dispatcher.dispatch.
dispatch_caller(d) ==
    /\ dpc[d] = "idle"
    /\ \E a \in CallersFor(d), key \in KeysFor(d), p \in PayloadsFor(d) :
          /\ dispatch_call(d, a, key, p, RequestIds[d])
          /\ IF key # None
                /\ rows[RowKey(credential_fingerprint(a), key)].status = "absent"
             THEN creator' = [creator EXCEPT
                                 ![RowKey(credential_fingerprint(a), key)] = <<a>>]
             ELSE UNCHANGED creator
    /\ UNCHANGED exScopeVars

\* The dispatches of several callers, without housekeeping.
NextScope ==
    \/ \E d \in Dispatches : dispatch_caller(d)
    \/ \E d \in Dispatches : mark_in_progress_get(d)
    \/ \E d \in Dispatches : dispatch_impl(d)
    \/ \E d \in Dispatches : mark_completed(d)

\* ------------------------------ a resource of the appliance and its copies
\* The data of the resource is modelled by its version: the number of the
\* change of the appliance that produced it.
InitMirror ==
    /\ bridge_resource = Null
    /\ bridge_changes = 0
    /\ sse_pending = <<>>
    /\ mpc = "idle"
    /\ listed = Null
    /\ mevpc = "idle"
    /\ fetched_full = Null
    /\ store_row = Null
    /\ cache_entry = Null
    /\ index_row = FALSE
    /\ newest_written = 0
    /\ event_wrote = FALSE

\* The appliance creates, updates or deletes the resource; the event
\* reaches the stream, or is lost because the stream is down.
bridge_change ==
    /\ bridge_changes < MaxChanges
    /\ bridge_changes' = bridge_changes + 1
    /\ \E type \in {"update", "delete"}, streamed \in BOOLEAN :
          /\ type = "delete" => bridge_resource # Null
          /\ bridge_resource' = IF type = "delete" THEN Null
                                ELSE <<bridge_changes + 1>>
          /\ IF streamed /\ Len(sse_pending) < MaxPending
             THEN sse_pending' = Append(sse_pending,
                                        [type |-> type, version |-> bridge_changes + 1])
             ELSE UNCHANGED sse_pending
    /\ UNCHANGED <<mpc, listed, mevpc, fetched_full, store_row, cache_entry,
                   index_row, newest_written, event_wrote>>
    /\ UNCHANGED <<idemVars, busVars, exMirrorVars>>

\* sync_core_resources: the appliance answers hue.get_json with its list,
\* or the call raises and the snapshot is abandoned.
sync_get_json ==
    /\ mpc = "idle"
    /\ \/ /\ listed' = bridge_resource
          /\ mpc' = "fetched"
          /\ event_wrote' = FALSE
       \/ UNCHANGED <<listed, mpc, event_wrote>>
    /\ UNCHANGED <<bridge_resource, bridge_changes, sse_pending, mevpc,
                   fetched_full, store_row, cache_entry, index_row,
                   newest_written>>
    /\ UNCHANGED <<idemVars, busVars, exMirrorVars>>

\* sync_core_resources: the task goes on with the list it was given:
\* db.upsert_resource and cache.upsert for the item, if there is one.
sync_items ==
    /\ mpc = "fetched"
    /\ IF listed = Null
       THEN UNCHANGED <<store_row, cache_entry, newest_written>>
       ELSE /\ store_row' = listed
            /\ cache_entry' = listed
            /\ newest_written' = Max(newest_written, listed[1])
    /\ mpc' = "commit"
    /\ UNCHANGED <<bridge_resource, bridge_changes, sse_pending, listed, mevpc,
                   fetched_full, index_row, event_wrote>>
    /\ UNCHANGED <<idemVars, busVars, exMirrorVars>>

\* sync_core_resources: db.commit and db.rebuild_name_index, and the return.
sync_commit ==
    /\ mpc = "commit"
    /\ index_row' = (store_row # Null)
    /\ mpc' = "complete"
    /\ UNCHANGED <<bridge_resource, bridge_changes, sse_pending, listed, mevpc,
                   fetched_full, store_row, cache_entry, newest_written,
                   event_wrote>>
    /\ UNCHANGED <<idemVars, busVars, exMirrorVars>>

\* resync_loop sleeps until the next snapshot.
resync_sleep ==
    /\ mpc = "complete"
    /\ mpc' = "idle"
    /\ UNCHANGED <<bridge_resource, bridge_changes, sse_pending, listed, mevpc,
                   fetched_full, store_row, cache_entry, index_row,
                   newest_written, event_wrote>>
    /\ UNCHANGED <<idemVars, busVars, exMirrorVars>>

\* _process_bridge_event_message, event type delete: delete_resource,
\* commit, cache.delete.
process_event_delete ==
    /\ mevpc = "idle"
    /\ sse_pending # <<>>
    /\ Head(sse_pending).type = "delete"
    /\ sse_pending' = Tail(sse_pending)
    /\ store_row' = Null
    /\ cache_entry' = Null
    /\ index_row' = FALSE
    /\ newest_written' = Max(newest_written, Head(sse_pending).version)
    /\ event_wrote' = TRUE
    /\ UNCHANGED <<bridge_resource, bridge_changes, mpc, listed, mevpc, fetched_full>>
    /\ UNCHANGED <<idemVars, busVars, exMirrorVars>>

\* _process_bridge_event_message, any other event type: the appliance
\* answers hue.get_json with the resource; for a resource that is gone the
\* call raises and the event is dropped.
process_event_get_json ==
    /\ mevpc = "idle"
    /\ sse_pending # <<>>
    /\ Head(sse_pending).type = "update"
    /\ sse_pending' = Tail(sse_pending)
    /\ IF bridge_resource = Null
       THEN UNCHANGED <<mevpc, fetched_full>>
       ELSE /\ fetched_full' = bridge_resource
            /\ mevpc' = "fetched"
    /\ UNCHANGED <<bridge_resource, bridge_changes, mpc, listed, store_row,
                   cache_entry, index_row, newest_written, event_wrote>>
    /\ UNCHANGED <<idemVars, busVars, exMirrorVars>>

\* _process_bridge_event_message: the task goes on with the resource it was
\* given: upsert_resource, commit, the name index, cache.upsert.
process_event_upsert ==
    /\ mevpc = "fetched"
    /\ store_row' = fetched_full
    /\ cache_entry' = fetched_full
    /\ index_row' = TRUE
    /\ newest_written' = Max(newest_written, fetched_full[1])
    /\ event_wrote' = TRUE
    /\ mevpc' = "idle"
    /\ fetched_full' = Null
    /\ UNCHANGED <<bridge_resource, bridge_changes, sse_pending, mpc, listed>>
    /\ UNCHANGED <<idemVars, busVars, exMirrorVars>>

NextMirror ==
    \/ bridge_change
    \/ sync_get_json
    \/ sync_items
    \/ sync_commit
    \/ resync_sleep
    \/ process_event_delete
    \/ process_event_get_json
    \/ process_event_upsert

\* ------------------------------------------------------------------------
\* The event task: _process_bridge_event_message of hue_sync.py, one message
\* after the other (sse_ingest_loop awaits each)
\* ------------------------------------------------------------------------
RefEventTypes == {"update", "add", "delete", "remove"}
\* event["data"]: one or two references with a string id and a string type.
RefLists == {<<rid>> : rid \in Rids} \cup {<<a, b>> : a, b \in Rids}
EventsOf(event_type, data) ==
    [i \in DOMAIN data |-> [type |-> event_type, rid |-> data[i]]]
\* The loop over `data` goes on with the next reference, or is over.
NextRef(rest) == IF rest = <<>> THEN "idle" ELSE "ref"
\* The rows of the name index that belong to rid.
RowsOf(index, rid) == {row \in index : row[3] = rid}

InitIngest ==
    /\ events = <<>>
    /\ ingpc = "idle"
    /\ resource = NoResource
    /\ tab_resources = [rid \in Rids |-> NoResource]
    /\ tab_index = {}
    /\ by_rid = [rid \in Rids |-> NoResource]
    /\ hub_event = Null
    /\ messages = 0
    /\ refs_ingested = 0
    /\ hub_published = 0

\* sse_ingest_loop hands the next message of the stream to
\* _process_bridge_event_message.
sse_message ==
    /\ ingpc = "idle"
    /\ messages < MaxMessages
    /\ \E event_type \in RefEventTypes, data \in RefLists :
          /\ events' = EventsOf(event_type, data)
          /\ refs_ingested' = refs_ingested + Len(data)
    /\ messages' = messages + 1
    /\ ingpc' = "ref"
    /\ UNCHANGED <<resource, tab_resources, tab_index, by_rid, hub_event,
                   hub_published>>
    /\ UNCHANGED <<idemVars, busVars, exIngestVars>>

\* event type delete or remove: db.delete_resource (the rows of the name
\* index, then the row of resources) and db.commit.
ref_delete_resource ==
    /\ ingpc = "ref"
    /\ Head(events).type \in {"delete", "remove"}
    /\ tab_index' = delete_name_index_for_rid(tab_index, Head(events).rid)
    /\ tab_resources' = [tab_resources EXCEPT ![Head(events).rid] = NoResource]
    /\ ingpc' = "cache_delete"
    /\ UNCHANGED <<events, resource, by_rid, hub_event, messages, refs_ingested,
                   hub_published>>
    /\ UNCHANGED <<idemVars, busVars, exIngestVars>>

\* cache.delete and hub.publish of resource.deleted; `continue`.
ref_delete_publish ==
    /\ ingpc = "cache_delete"
    /\ by_rid' = [by_rid EXCEPT ![Head(events).rid] = NoResource]
    /\ hub_event' = <<[type |-> "resource.deleted", rid |-> Head(events).rid]>>
    /\ hub_published' = hub_published + 1
    /\ events' = Tail(events)
    /\ ingpc' = NextRef(Tail(events))
    /\ UNCHANGED <<resource, tab_resources, tab_index, messages, refs_ingested>>
    /\ UNCHANGED <<idemVars, busVars, exIngestVars>>

\* any other event type: hue.get_json of the single resource. The appliance
\* answers with the resource, or with an empty `data` (`continue`), or the
\* call raises (HueUpstreamError for a resource that is gone,
\* HueTransportError): the exception leaves the function and the rest of
\* the message with it.
ref_get_json ==
    /\ ingpc = "ref"
    /\ Head(events).type \notin {"delete", "remove"}
    /\ \/ /\ \E name \in Names :
                resource' = [rtype |-> RtypeOf[Head(events).rid], name |-> name]
          /\ ingpc' = "upsert"
          /\ UNCHANGED events
       \/ /\ events' = Tail(events)
          /\ ingpc' = NextRef(Tail(events))
          /\ UNCHANGED resource
       \/ /\ events' = <<>>
          /\ ingpc' = "idle"
          /\ UNCHANGED resource
    /\ UNCHANGED <<tab_resources, tab_index, by_rid, hub_event, messages,
                   refs_ingested, hub_published>>
    /\ UNCHANGED <<idemVars, busVars, exIngestVars>>

\* db.upsert_resource, commit, db.delete_name_index_for_rid, and for a name
\* with a non-empty normal form db.insert_name_index and commit.
ref_upsert_resource ==
    /\ ingpc = "upsert"
    /\ LET rid == Head(events).rid
           cleared == delete_name_index_for_rid(tab_index, rid)
       IN  /\ tab_resources' = [tab_resources EXCEPT ![rid] = resource]
           /\ tab_index' = IF HasNameNorm(resource.name)
                           THEN insert_name_index(cleared, resource.rtype,
                                                  name_norm(resource.name[1]), rid)
                           ELSE cleared
    /\ ingpc' = "cache_upsert"
    /\ UNCHANGED <<events, resource, by_rid, hub_event, messages, refs_ingested,
                   hub_published>>
    /\ UNCHANGED <<idemVars, busVars, exIngestVars>>

\* cache.upsert and hub.publish of resource.updated.
ref_upsert_publish ==
    /\ ingpc = "cache_upsert"
    /\ by_rid' = [by_rid EXCEPT ![Head(events).rid] = resource]
    /\ hub_event' = <<[type |-> "resource.updated", rid |-> Head(events).rid]>>
    /\ hub_published' = hub_published + 1
    /\ events' = Tail(events)
    /\ ingpc' = NextRef(Tail(events))
    /\ resource' = NoResource
    /\ UNCHANGED <<tab_resources, tab_index, messages, refs_ingested>>
    /\ UNCHANGED <<idemVars, busVars, exIngestVars>>

NextIngest ==
    \/ sse_message
    \/ ref_delete_resource
    \/ ref_delete_publish
    \/ ref_get_json
    \/ ref_upsert_resource
    \/ ref_upsert_publish

\* ------------------------------------------------------------------------
\* The appliance's address and key: lifespan and bootstrap_loop of app.py,
\* bridge.set_host and bridge.pair. HUE_BRIDGE_HOST is not set.
\* ------------------------------------------------------------------------
Hosts == {"192.168.1.10", "192.168.1.20"}
AppKeys == {"key1", "key2"}
NoPair == [bridge_host |-> Null, application_key |-> Null]
\* Python's `a or b` for a value that is None or a non-empty string.
OrElse(a, b) == IF a # Null THEN a ELSE b

InitBoot ==
    /\ bootpc = "start"
    /\ settings = NoPair
    /\ app_config = NoPair
    /\ app_state = NoPair
    /\ client = NoPair
    /\ read_now = NoPair
    /\ setting_writes = 0

\* lifespan up to the start of bootstrap_loop: the settings table holds what
\* an earlier run left, HUE_APPLICATION_KEY is set or not; config is
\* replaced by env-or-store, written back, and HueClient and AppState are
\* built from it.
lifespan ==
    /\ bootpc = "start"
    /\ \E db_host \in {Null} \cup {<<h>> : h \in Hosts},
          db_key \in {Null} \cup {<<k>> : k \in AppKeys},
          env_key \in {Null, <<"key1">>} :
          LET bridge_host == OrElse(Null, db_host)
              application_key == OrElse(env_key, db_key)
              cfg == [bridge_host |-> bridge_host,
                      application_key |-> application_key]
          IN  /\ app_config' = cfg
              /\ settings' = cfg
              /\ client' = cfg
              /\ app_state' = cfg
    /\ bootpc' = "loop"
    /\ UNCHANGED <<read_now, setting_writes>>
    /\ UNCHANGED <<idemVars, busVars, exBootVars>>

\* HueClient.configure
configure(bridge_host, application_key) ==
    [bridge_host |-> bridge_host, application_key |-> application_key]

\* bridge.set_host with a well-formed host, of v1 and of v2 alike:
\* db.set_setting, then hue.configure with the client's own key.
bridge_set_host ==
    /\ bootpc # "start"
    /\ setting_writes < MaxSettingWrites
    /\ \E host \in Hosts :
          /\ settings' = [settings EXCEPT !.bridge_host = <<host>>]
          /\ client' = configure(<<host>>, client.application_key)
    /\ setting_writes' = setting_writes + 1
    /\ UNCHANGED <<bootpc, app_config, app_state, read_now>>
    /\ UNCHANGED <<idemVars, busVars, exBootVars>>

\* bridge.pair answered with a username, of v1 and of v2 alike:
\* db.set_setting, then hue.configure with the client's own host.
bridge_pair_success ==
    /\ bootpc # "start"
    /\ setting_writes < MaxSettingWrites
    /\ \E application_key \in AppKeys :
          /\ settings' = [settings EXCEPT !.application_key = <<application_key>>]
          /\ client' = configure(client.bridge_host, <<application_key>>)
    /\ setting_writes' = setting_writes + 1
    /\ UNCHANGED <<bootpc, app_config, app_state, read_now>>
    /\ UNCHANGED <<idemVars, busVars, exBootVars>>

\* bootstrap_loop, an iteration's two reads: config or else the settings row.
bootstrap_loop_read ==
    /\ bootpc = "loop"
    /\ read_now' = [bridge_host |-> OrElse(app_config.bridge_host, settings.bridge_host),
                    application_key |-> OrElse(app_config.application_key,
                                           settings.application_key)]
    /\ bootpc' = "read"
    /\ UNCHANGED <<settings, app_config, app_state, client, setting_writes>>
    /\ UNCHANGED <<idemVars, busVars, exBootVars>>

\* bootstrap_loop, the rest of the iteration: AppState and the client are
\* changed if what was read differs from AppState; then the sleep.
bootstrap_loop ==
    /\ bootpc = "read"
    /\ IF \/ read_now.bridge_host # app_state.bridge_host
          \/ read_now.application_key # app_state.application_key
       THEN /\ app_state' = read_now
            /\ client' = configure(read_now.bridge_host, read_now.application_key)
       ELSE UNCHANGED <<app_state, client>>
    /\ bootpc' = "loop"
    /\ read_now' = NoPair
    /\ UNCHANGED <<settings, app_config, setting_writes>>
    /\ UNCHANGED <<idemVars, busVars, exBootVars>>

NextBoot ==
    \/ lifespan
    \/ bridge_set_host
    \/ bridge_pair_success
    \/ bootstrap_loop_read
    \/ bootstrap_loop

\* ------------------------------------------------------------------------
\* The background tasks: cleanup_loop (v2/idempotency.py),
\* forward_v1_to_v2_loop (v2/event_forwarder.py), bootstrap_loop (app.py),
\* resync_loop and sse_ingest_loop (hue_sync.py)
\* ------------------------------------------------------------------------
Tasks == {"cleanup_loop", "forward_v1_to_v2_loop", "bootstrap_loop",
          "resync_loop", "sse_ingest_loop"}
\* What a round's awaited calls do: they return, a call on the store raises
\* (sqlite3.Error), or a call on the appliance raises (HueTransportError,
\* HueUpstreamError).
RoundFailures == {"none", "store", "appliance"}

InitTasks ==
    /\ task_status = [t \in Tasks |-> "running"]
    /\ task_rounds = [t \in Tasks |-> 0]
    /\ task_failures = [t \in Tasks |-> {}]

\* A round of task t's loop in which `failure` happens; `caught` tells
\* whether an except clause of the loop handles it. An exception that is not
\* handled leaves the coroutine and the task is done.
Round(t, failure, caught) ==
    /\ task_status[t] = "running"
    /\ task_rounds[t] < MaxRounds
    /\ task_rounds' = [task_rounds EXCEPT ![t] = @ + 1]
    /\ task_failures' = [task_failures EXCEPT ![t] = @ \cup ({failure} \ {"none"})]
    /\ task_status' = IF failure = "none" \/ caught THEN task_status
                      ELSE [task_status EXCEPT ![t] = "failed"]
    /\ UNCHANGED <<idemVars, busVars, exTaskVars>>

\* cleanup_loop: cleanup_expired inside try / except Exception: pass, then
\* the sleep.
cleanup_loop ==
    \E failure \in {"none", "store"} : Round("cleanup_loop", failure, TRUE)

\* forward_v1_to_v2_loop: queue.get, db.get_setting_int, cache.get,
\* bus.publish inside try / finally: unsubscribe; there is no except clause.
forward_v1_to_v2_loop ==
    \E failure \in {"none", "store"} :
        Round("forward_v1_to_v2_loop", failure, FALSE)

\* bootstrap_loop: db.get_setting for the values that config lacks,
\* hue.configure, the start of the tasks, the sleep; there is no try.
bootstrap_loop_round ==
    \E failure \in {"none", "store"} : Round("bootstrap_loop", failure, FALSE)

\* resync_loop: the sleep, then sync_core_resources inside try / except
\* Exception: continue.
resync_loop ==
    \E failure \in RoundFailures : Round("resync_loop", failure, TRUE)

\* sse_ingest_loop: the stream and _process_bridge_event_message inside try;
\* except (HueTransportError, HueUpstreamError) sleeps and runs
\* sync_core_resources inside try / except Exception: pass; except Exception
\* sleeps and continues.
sse_ingest_loop ==
    \E failure \in RoundFailures : Round("sse_ingest_loop", failure, TRUE)

\* lifespan after the yield: every task is cancelled and awaited.
lifespan_shutdown ==
    /\ \E t \in Tasks : task_status[t] # "cancelled"
    /\ task_status' = [t \in Tasks |-> IF task_status[t] = "running"
                                       THEN "cancelled" ELSE task_status[t]]
    /\ UNCHANGED <<task_rounds, task_failures>>
    /\ UNCHANGED <<idemVars, busVars, exTaskVars>>

NextTasks ==
    \/ cleanup_loop
    \/ forward_v1_to_v2_loop
    \/ bootstrap_loop_round
    \/ resync_loop
    \/ sse_ingest_loop
    \/ lifespan_shutdown

\* ------------------------------------------------------------------------
\* The forwarder: forward_v1_to_v2_loop of v2/event_forwarder.py, the single
\* task that feeds the v2 bus
\* ------------------------------------------------------------------------
\* event["type"] of a hub event: a string, or None for a missing one.
HubEventTypes == {"resource.updated", "resource.deleted", None}
\* event["resource"]: a reference with string rid and rtype, or Null for a
\* missing or malformed one.
HubResources == {Null} \cup {<<[rid |-> rid, rtype |-> RtypeOf[rid]]>> : rid \in Rids}
NoHubEvent == [ts |-> 0, type |-> None, resource |-> Null]

\* Faulty variant of the event built: the reference is left out.
ForwardedWithoutResource(event, revision) ==
    [ ts |-> event.ts,
      type |-> IF event.type = None THEN "unknown" ELSE event.type,
      resource |-> Null,
      revision |-> revision ]

\* v2_event of the forwarder: ts and type of the hub event ("unknown" for a
\* missing type), the reference {rid, rtype}, the revision read.
ForwardedEvent(event, revision) ==
    [ ts |-> event.ts,
      type |-> IF event.type = None THEN "unknown" ELSE event.type,
      resource |-> event.resource,
      revision |-> revision ]

InitForwarder ==
    /\ fwpc = "start"
    /\ fw_queue = <<>>
    /\ fw_event = NoHubEvent
    /\ fw_revision = 0
    /\ revision_row = Null
    /\ bus_replay = <<>>
    /\ hub_count = 0
    /\ dequeued = <<>>
    /\ revisions_read = <<>>

\* forward_v1_to_v2_loop starts: hub.subscribe().
forwarder_subscribe ==
    /\ fwpc = "start"
    /\ fwpc' = "get"
    /\ UNCHANGED <<fw_queue, fw_event, fw_revision, revision_row, bus_replay,
                   hub_count, dequeued, revisions_read>>
    /\ UNCHANGED <<idemVars, busVars, exFwdVars>>

\* EventHub.publish by the event task: the forwarder's queue, once
\* subscribed, gets the event, a full queue after giving up its oldest.
hub_publish ==
    /\ hub_count < MaxHubEvents
    /\ hub_count' = hub_count + 1
    /\ \E type \in HubEventTypes, res \in HubResources :
          fw_queue' = IF fwpc = "start" THEN fw_queue
                      ELSE PutDropOldest(fw_queue,
                                         [ts |-> hub_count + 1, type |-> type,
                                          resource |-> res],
                                         MaxQueueSize)
    /\ UNCHANGED <<fwpc, fw_event, fw_revision, revision_row, bus_replay,
                   dequeued, revisions_read>>
    /\ UNCHANGED <<idemVars, busVars, exFwdVars>>

\* The row inventory_revision is changed in the store. (The gateway itself
\* has no statement that does it.)
revision_row_write ==
    /\ get_setting_int(revision_row) < MaxRevision
    /\ revision_row' = <<get_setting_int(revision_row) + 1>>
    /\ UNCHANGED <<fwpc, fw_queue, fw_event, fw_revision, bus_replay, hub_count,
                   dequeued, revisions_read>>
    /\ UNCHANGED <<idemVars, busVars, exFwdVars>>

\* event = await subscription.queue.get()
forwarder_get ==
    /\ fwpc = "get"
    /\ fw_queue # <<>>
    /\ fw_event' = Head(fw_queue)
    /\ fw_queue' = Tail(fw_queue)
    /\ dequeued' = Append(dequeued, Head(fw_queue))
    /\ fwpc' = "get_setting_int"
    /\ UNCHANGED <<fw_revision, revision_row, bus_replay, hub_count,
                   revisions_read>>
    /\ UNCHANGED <<idemVars, busVars, exFwdVars>>

\* revision = await db.get_setting_int("inventory_revision", default=0)
forwarder_get_setting_int ==
    /\ fwpc = "get_setting_int"
    /\ fw_revision' = get_setting_int(revision_row)
    /\ revisions_read' = Append(revisions_read, get_setting_int(revision_row))
    /\ fwpc' = "publish"
    /\ UNCHANGED <<fw_queue, fw_event, revision_row, bus_replay, hub_count,
                   dequeued>>
    /\ UNCHANGED <<idemVars, busVars, exFwdVars>>

\* The v2 event is built and published: V2EventBus.publish gives it the
\* next cursor; back to the head of the loop.
forwarder_publish ==
    /\ fwpc = "publish"
    /\ bus_replay' = Append(bus_replay,
                            V2EventItem(NextCursor(Len(bus_replay)),
                                        ForwardedEvent(fw_event, fw_revision)))
    /\ fw_event' = NoHubEvent
    /\ fwpc' = "get"
    /\ UNCHANGED <<fw_queue, fw_revision, revision_row, hub_count, dequeued,
                   revisions_read>>
    /\ UNCHANGED <<idemVars, busVars, exFwdVars>>

NextForwarder ==
    \/ forwarder_subscribe
    \/ hub_publish
    \/ revision_row_write
    \/ forwarder_get
    \/ forwarder_get_setting_int
    \/ forwarder_publish

\* ------------------------------------------------------------------------
\* ResourceCache (cache.py): the forward map and the inverted index
\* ------------------------------------------------------------------------
\* The data argument of upsert.
CacheData == {"d1", "d2"}
\* No entry under a rid.
NoCached == [rid |-> None]
\* The non-empty normalised names.
Norms == {name_norm(n) : n \in NameStrings} \ {<<>>}
\* The keys of the inverted index.
IndexKeys == Rtypes \X Norms
\* The entries of an inverted index.
Entries(index) == { e \in IndexKeys \X Rids : e[2] \in index[e[1]] }

\* normalize_name(name) if isinstance(name, str) and name.strip() else None
cache_name_norm(name) ==
    IF name # Null /\ name_norm(name[1]) # <<>> THEN name_norm(name[1]) ELSE Null

CachedResource(rid, rtype, name, norm, data) ==
    [rid |-> rid, rtype |-> rtype, name |-> name, name_norm |-> norm, data |-> data]

\* Faulty variant of upsert and delete: the old bucket keeps the rid.
KeepPrev(index, prev, rid) == index

\* if prev and prev.name_norm: _name_to_rids[prev.rtype][prev.name_norm].discard(rid)
DiscardPrev(index, prev, rid) ==
    IF prev # NoCached /\ prev.name_norm # Null
    THEN [index EXCEPT ![<<prev.rtype, prev.name_norm>>] = @ \ {rid}]
    ELSE index

InitCache ==
    /\ cache_by_rid = [rid \in Rids |-> NoCached]
    /\ name_to_rids = [key \in IndexKeys |-> {}]
    /\ rid_to_name_norm = [rid \in Rids |-> NoCached]
    /\ indexed_before = {}

\* ResourceCache.upsert(rid, rtype, name, data)
ResourceCache_upsert ==
    /\ \E rid \in Rids, rtype \in Rtypes, name \in Names, data \in CacheData :
          LET prev == cache_by_rid[rid]
              norm == cache_name_norm(name)
              discarded == DiscardPrev(name_to_rids, prev, rid)
          IN  /\ name_to_rids' =
                    IF norm # Null
                    THEN [discarded EXCEPT ![<<rtype, norm>>] = @ \cup {rid}]
                    ELSE discarded
              /\ rid_to_name_norm' = [rid_to_name_norm EXCEPT ![rid] = norm]
              /\ cache_by_rid' =
                    [cache_by_rid EXCEPT ![rid] =
                        CachedResource(rid, rtype, name, norm, data)]
    /\ indexed_before' = indexed_before \cup Entries(name_to_rids)
    /\ UNCHANGED <<idemVars, busVars, exCacheVars>>

\* ResourceCache.delete(rid)
ResourceCache_delete ==
    /\ \E rid \in Rids :
          /\ name_to_rids' = DiscardPrev(name_to_rids, cache_by_rid[rid], rid)
          /\ cache_by_rid' = [cache_by_rid EXCEPT ![rid] = NoCached]
          /\ rid_to_name_norm' = [rid_to_name_norm EXCEPT ![rid] = NoCached]
    /\ indexed_before' = indexed_before \cup Entries(name_to_rids)
    /\ UNCHANGED <<idemVars, busVars, exCacheVars>>

NextCache ==
    \/ ResourceCache_upsert
    \/ ResourceCache_delete

\* ------------------------------------------------------------------------
\* HueClient.request_jsonish (hue_client.py): the attempts of one call
\* ------------------------------------------------------------------------
\* What client.request does at one attempt: it returns a response with this
\* status, or it raises one of the httpx errors of the except clause
\* (ConnectError, ConnectTimeout, ReadTimeout, NetworkError: "transport"),
\* or another httpx error (WriteTimeout, PoolTimeout, RemoteProtocolError:
\* "other").
HttpAnswers ==
    {[raised |-> e, status |-> 0] : e \in {"transport", "other"}}
    \cup {[raised |-> "", status |-> n] : n \in {200, 404, 429, 503}}
NoOutcome == [kind |-> "none", answer |-> 0]
\* should_retry = retry and (status == 429 or 500 <= status <= 599)
ShouldRetry(retry, status) == retry /\ (status = 429 \/ (500 <= status /\ status <= 599))

InitJsonish ==
    /\ rjpc = "idle"
    /\ rj_retry = FALSE
    /\ rj_max_attempts = 0
    /\ rj_attempt = 0
    /\ rj_answers = <<>>
    /\ rj_outcome = NoOutcome
    /\ rj_calls = 0

\* attempts = max_attempts if retry else 1
Attempts == IF rj_retry THEN rj_max_attempts ELSE 1

\* request_jsonish is called: retry and max_attempts (RETRY_MAX_ATTEMPTS is
\* any integer of the environment; the default is 3).
request_jsonish_call ==
    /\ rjpc \in {"idle", "done"}
    /\ rj_calls < MaxCalls
    /\ rj_calls' = rj_calls + 1
    /\ \E retry \in BOOLEAN, max_attempts \in 0..MaxAttempts :
          /\ rj_retry' = retry
          /\ rj_max_attempts' = max_attempts
    /\ rj_attempt' = 1
    /\ rj_answers' = <<>>
    /\ rj_outcome' = NoOutcome
    /\ rjpc' = "loop"
    /\ UNCHANGED <<idemVars, busVars, exJsonishVars>>

\* One round of `for attempt in range(1, attempts + 1)`: client.request and
\* what follows it.
request_jsonish_attempt ==
    /\ rjpc = "loop"
    /\ rj_attempt <= Attempts
    /\ \E answer \in HttpAnswers :
          /\ rj_answers' = Append(rj_answers, answer)
          /\ IF answer.raised = "transport"
             THEN IF rj_attempt = Attempts
                  THEN /\ rj_outcome' = [kind |-> "HueTransportError", answer |-> 0]
                       /\ rjpc' = "done"
                       /\ UNCHANGED rj_attempt
                  ELSE /\ rj_attempt' = rj_attempt + 1
                       /\ UNCHANGED <<rjpc, rj_outcome>>
             ELSE IF answer.raised = "other"
             THEN /\ rj_outcome' = [kind |-> "httpx.TransportError", answer |-> 0]
                  /\ rjpc' = "done"
                  /\ UNCHANGED rj_attempt
             ELSE IF answer.status >= 400
             THEN IF ShouldRetry(rj_retry, answer.status) /\ rj_attempt < Attempts
                  THEN /\ rj_attempt' = rj_attempt + 1
                       /\ UNCHANGED <<rjpc, rj_outcome>>
                  ELSE /\ rj_outcome' = [kind |-> "HueUpstreamError", answer |-> answer.status]
                       /\ rjpc' = "done"
                       /\ UNCHANGED rj_attempt
             ELSE /\ rj_outcome' = [kind |-> "HueJSONishResult", answer |-> answer.status]
                  /\ rjpc' = "done"
                  /\ UNCHANGED rj_attempt
    /\ UNCHANGED <<rj_retry, rj_max_attempts, rj_calls>>
    /\ UNCHANGED <<idemVars, busVars, exJsonishVars>>

\* The loop is over without a return or a raise (attempts <= 0): no error
\* was recorded, raise HueTransportError("request failed").
request_jsonish_exhausted ==
    /\ rjpc = "loop"
    /\ rj_attempt > Attempts
    /\ rj_outcome' = [kind |-> "HueTransportError", answer |-> 0]
    /\ rjpc' = "done"
    /\ UNCHANGED <<rj_retry, rj_max_attempts, rj_attempt, rj_answers, rj_calls>>
    /\ UNCHANGED <<idemVars, busVars, exJsonishVars>>

NextJsonish ==
    \/ request_jsonish_call
    \/ request_jsonish_attempt
    \/ request_jsonish_exhausted

NextBus ==
    \/ EventHub_publish
    \/ \E f \in Forwarders : forward_subscribe(f)
    \/ \E f \in Forwarders : forward_get(f)
    \/ \E f \in Forwarders : forward_publish(f)
    \/ \E s \in Streams : v2_events_stream(s)
    \/ \E s \in Streams : gen_start(s)
    \/ \E s \in Streams : gen_resync(s)
    \/ \E s \in Streams : gen_replay(s)
    \/ \E s \in Streams : gen_live(s)
    \/ \E s \in Streams : gen_close(s)

\* The streams and the forwarder (the one task that lifespan starts) with
\* the ways they end.
TheForwarder == CHOOSE f \in Forwarders : \A g \in Forwarders : f <= g
NextStreams ==
    \/ EventHub_publish
    \/ forward_subscribe(TheForwarder)
    \/ forward_get(TheForwarder)
    \/ forward_publish(TheForwarder)
    \/ forward_cancel(TheForwarder)
    \/ \E s \in Streams : v2_events_stream(s)
    \/ \E s \in Streams : gen_start(s)
    \/ \E s \in Streams : gen_resync(s)
    \/ \E s \in Streams : gen_replay(s)
    \/ \E s \in Streams : gen_live(s)
    \/ \E s \in Streams : gen_close(s)
    \/ \E s \in Streams : gen_close_unstarted(s)

Init == InitIdem /\ InitBus /\ InitLimiter /\ InitRouter /\ InitStore
        /\ InitResolve /\ InitClip /\ InitBatch
        /\ InitErrors
        /\ InitPair
        /\ InitInventory
        /\ InitVerify
        /\ InitLight
        /\ InitScope
        /\ InitMirror
        /\ InitIngest
        /\ InitBoot
        /\ InitTasks
        /\ InitForwarder
        /\ InitJsonish
        /\ InitCache

SpecBus == Init /\ [][NextBus]_vars

SpecLimiter == Init /\ [][NextLimiter]_vars

SpecActions == Init /\ [][NextActions]_vars

SpecStore == Init /\ [][NextStore]_vars

SpecRebuild == Init /\ [][NextRebuild]_vars

SpecResolve == Init /\ [][NextResolve]_vars

SpecClip == Init /\ [][NextClip]_vars

SpecBatch == Init /\ [][NextBatch]_vars

SpecErrors == Init /\ [][NextErrors]_vars

SpecPair == Init /\ [][NextPair]_vars

SpecInventory == Init /\ [][NextInventory]_vars

SpecVerify == Init /\ [][NextVerify]_vars

SpecLight == Init /\ [][NextLight]_vars

SpecScope == Init /\ [][NextScope]_vars

SpecMirror == Init /\ [][NextMirror]_vars

SpecIngest == Init /\ [][NextIngest]_vars

SpecBoot == Init /\ [][NextBoot]_vars

SpecTasks == Init /\ [][NextTasks]_vars

SpecStreams == Init /\ [][NextStreams]_vars

SpecForwarder == Init /\ [][NextForwarder]_vars

SpecCache == Init /\ [][NextCache]_vars

SpecJsonish == Init /\ [][NextJsonish]_vars

NextIdem ==
    \/ \E d \in Dispatches : dispatch(d)
    \/ \E d \in Dispatches : mark_in_progress_get(d)
    \/ \E d \in Dispatches : dispatch_impl(d)
    \/ \E d \in Dispatches : mark_completed(d)
    \/ cleanup_expired_sweep
    \/ cleanup_expired_count
    \/ cleanup_expired_cap
    \/ Tick

SpecIdem == Init /\ [][NextIdem]_vars

\* The housekeeping task next to the requests of every caller.
NextCleanup ==
    \/ NextIdem
    \/ mark_in_progress_other

SpecCleanup == Init /\ [][NextCleanup]_vars

\* The same with the scheduling the code gives: the wall clock moves on, and
\* cleanup_loop (while True, every exception caught, sleep 60) runs
\* cleanup_expired again and again, each statement of it in turn.  Nothing is
\* assumed of the requests: a dispatch may stay in its handler for ever.
SpecIdemLive ==
    /\ SpecIdem
    /\ WF_vars(Tick)
    /\ WF_vars(cleanup_expired_sweep)
    /\ WF_vars(cleanup_expired_count)
    /\ WF_vars(cleanup_expired_cap)

\* The dispatches alone: no housekeeping run and no expiry while they are
\* in flight.
NextDispatch ==
    \/ \E d \in Dispatches : dispatch(d)
    \/ \E d \in Dispatches : mark_in_progress_get(d)
    \/ \E d \in Dispatches : dispatch_impl(d)
    \/ \E d \in Dispatches : mark_completed(d)

SpecDispatch == Init /\ [][NextDispatch]_vars

\* ------------------------------------------------------------------------
\* Properties of the idempotency engine
\* ------------------------------------------------------------------------
\* Dispatch d reads the record and answers or goes on in this step.
ReadsRecord(d) == dpc[d] = "mip_get" /\ dpc'[d] # "mip_get"
\* Dispatch d returns in this step.
Returns(d) == returned' # NoReturn /\ returned'[1].dispatch = d
\* Record r is for the same (action, args) as dispatch d's request.
SameRequest(d, r) == r.action = req[d].payload.action /\ r.request_hash = ReqHash(d)
\* The response is the error envelope with this status and code.
IsError(resp, status_code, code) ==
    /\ resp.status_code = status_code
    /\ resp.body.ok = FALSE
    /\ resp.body.error.code = code
\* Two dispatches in flight carry the same credential, key and (action, args).
Duplicates(d, e) ==
    /\ d # e
    /\ dpc[d] \notin {"idle", "done"} /\ dpc[e] \notin {"idle", "done"}
    /\ req[d].idempotency_key # None /\ req[e].idempotency_key # None
    /\ KeyOf(d) = KeyOf(e)
    /\ req[d].payload = req[e].payload

C2_ReplayStoredResponse ==
    [][\A d \in Dispatches :
          /\ (ReadsRecord(d) /\ ~inserted[d] /\ rows[KeyOf(d)].status = "completed"
                 /\ SameRequest(d, rows[KeyOf(d)])
                 /\ rows[KeyOf(d)].response_status_code # Null
                 /\ rows[KeyOf(d)].response_json # Null) =>
                LET r == rows[KeyOf(d)]
                    stored == json_loads(r.response_json)
                    body == returned'[1].response.body
                IN  /\ Returns(d)
                    /\ returned'[1].response.status_code = r.response_status_code[1]
                    /\ DOMAIN body = DOMAIN stored \cup {"requestId"}
                    /\ \A m \in DOMAIN body \ {"requestId"} : body[m] = stored[m]
                    /\ body.requestId = req[d].request_id
                    /\ dpc'[d] = "done"
                    /\ rows' = rows
          /\ (dpc[d] = "mark_completed" /\ dpc'[d] = "done" /\ rows' # rows) =>
                /\ rows'[KeyOf(d)].status = "completed"
                /\ rows'[KeyOf(d)].response_status_code = <<response[d].status_code>>
                /\ json_loads(rows'[KeyOf(d)].response_json) = response[d].body]_vars

\* C2's case: a dispatch has just been answered a stored successful response
\* under its own request id, which is not the stored one.
C2_Witness ==
    /\ returned # NoReturn
    /\ returned[1].response.status_code = 200
    /\ returned[1].response.body.ok
    /\ \E k \in RowKeys :
          /\ rows[k].status = "completed"
          /\ rows[k].response_status_code = <<200>>
          /\ LET stored == json_loads(rows[k].response_json)
             IN  /\ stored.action = returned[1].response.body.action
                 /\ stored.result = returned[1].response.body.result
                 /\ stored.requestId # returned[1].response.body.requestId
                 /\ returned[1].response.body.requestId = RequestIds[returned[1].dispatch]

\* C3: a dispatch that finds a record, in_progress or completed, whose action
\* or request hash differs from its own returns 409
\* idempotency_key_reuse_mismatch without running the handler, and neither its
\* INSERT OR IGNORE nor its answer changes the record.
C3_KeyReuseMismatch ==
    [][\A d \in Dispatches :
          /\ (ReadsRecord(d) /\ ~inserted[d]
                 /\ rows[KeyOf(d)].status \in {"in_progress", "completed"}
                 /\ ~SameRequest(d, rows[KeyOf(d)])) =>
                /\ Returns(d)
                /\ IsError(returned'[1].response, 409, "idempotency_key_reuse_mismatch")
                /\ returned'[1].response.body.error.details
                      = [idempotencyKey |-> req[d].idempotency_key]
                /\ dpc'[d] = "done"
                /\ rows' = rows
          /\ (dpc[d] = "idle" /\ dpc'[d] = "mip_get"
                 /\ insertSaw'[d].status \in {"in_progress", "completed"}) =>
                /\ ~inserted'[d]
                /\ rows' = rows]_vars

\* C3's case: a dispatch has just been answered 409
\* idempotency_key_reuse_mismatch for a record of the same action whose request
\* hash differs, while the record's owner is still in flight.
C3_Witness ==
    /\ returned # NoReturn
    /\ IsError(returned[1].response, 409, "idempotency_key_reuse_mismatch")
    /\ \E e \in Dispatches :
          /\ dpc[e] \in {"impl", "mark_completed"} /\ inserted[e]
          /\ req[e].idempotency_key = returned[1].response.body.error.details.idempotencyKey
          /\ rows[KeyOf(e)].status = "in_progress"
          /\ rows[KeyOf(e)].action = returned[1].response.body.action

\* C4: a record is completed at most once: once it is completed no step
\* changes its response_status_code or response_json, and it can only
\* disappear, by a step of cleanup_expired.
C4_CompletedOnce ==
    [][\A k \in RowKeys :
          rows[k].status = "completed" =>
             \/ rows'[k].status = "absent" /\ cpc' # cpc
             \/ /\ rows'[k].status = "completed"
                /\ rows'[k].response_status_code = rows[k].response_status_code
                /\ rows'[k].response_json = rows[k].response_json]_vars

\* ------------------------------------------------------------------------
\* Properties of the event bus and the v2 event stream
\* ------------------------------------------------------------------------
\* The eventIds of the frames stream s has yielded, in order.
FrameIds(s) == [i \in 1..Len(frames[s]) |-> frames[s][i].eventId]
\* A sequence of integers is strictly increasing.
Increasing(ids) == \A i, j \in 1..Len(ids) : i < j => ids[i] < ids[j]
\* The cursors publish has returned: those issued, less the ones
\* allocate_cursor handed to a stream.
Published ==
    { issued[i] : i \in 1..Len(issued) } \ { resyncCursor[s] : s \in Streams }

\* C5: in every subscriber's queue the cursors, read in FIFO order, are
\* strictly increasing, whatever the interleaving of the publishing tasks, and
\* so are the eventIds of the frames a stream has yielded.
C5_QueueCursorsIncrease ==
    \A s \in Streams :
       /\ Increasing([i \in 1..Len(queue[s]) |-> queue[s][i].cursor])
       /\ Increasing(FrameIds(s))

\* C5's case: two tasks have published the same hub events in an interleaved
\* order, a subscriber's full queue has lost its oldest item, and the queue
\* holds a later hub event before an earlier one.
C5_Witness ==
    \E s \in Streams :
       /\ overflow[s]
       /\ Len(queue[s]) >= 2
       /\ queue[s][1].event.ts > queue[s][2].event.ts

\* A stream whose Last-Event-ID did not parse, or parsed to a positive cursor
\* that was not in the ring.
Unreplayable(s) ==
    /\ last_event_id[s] # ""
    /\ \/ last_cursor[s] = Null
       \/ last_cursor[s][1] > 0 /\ ~inRing[s]
\* The positions of the needs_resync frames of a stream.
Resyncs(s) == { i \in 1..Len(frames[s]) : frames[s][i].type = "needs_resync" }

C7_ReplayThenLive ==
    \A s \in Streams :
       (last_event_id[s] # "" /\ last_cursor[s] # Null /\ inRing[s]) =>
          LET c == last_cursor[s][1]
              ids == FrameIds(s)
              yielded == { ids[i] : i \in 1..Len(ids) }
              toReplay == Cursors(replayBuf[s])
          IN  /\ Increasing(ids)
              /\ Resyncs(s) = {}
              /\ (~overflow[s] /\ spc[s] # "closed") =>
                    \A e \in Published :
                       e > c =>
                          \/ e \in yielded
                          \/ e \in toReplay
                          \/ /\ e \in Cursors(queue[s])
                             /\ e > last_sent[s]
                             /\ \A b \in toReplay : e > b

\* C7's case: a stream opened with a cursor of the ring has yielded an event
\* of the replay and then an event that was published after replay_from, and
\* its queue has not overflowed.
C7_Witness ==
    \E s \in Streams :
       /\ inRing[s] /\ ~overflow[s]
       /\ last_cursor[s] # Null
       /\ Len(frames[s]) >= 2
       /\ last_cursor[s][1] < frames[s][1].eventId
       /\ frames[s][1].eventId <= snapshot[s]
       /\ snapshot[s] < frames[s][Len(frames[s])].eventId

\* Stream s calls replay_from in this step.
CallsReplayFrom(s) ==
    /\ spc[s] = "gen" /\ spc'[s] # "gen"
    /\ last_event_id[s] # "" /\ last_cursor[s] # Null

BusPublishes == replay' # replay
HubPublishes == hubTs' # hubTs
\* A task that has reached its publish can take it, whatever the queues
\* hold (the caps of the model apart).
PublishNeverWaits ==
    /\ \A g \in Forwarders :
          (fpc[g] = "publish" /\ cursor < MaxCursor) => ENABLED forward_publish(g)
    /\ hubTs < MaxEvents => ENABLED EventHub_publish
\* A queue takes a new item the way the claim has it.
Enqueued(q, item, maxsize) ==
    Append(IF Len(q) = maxsize THEN Tail(q) ELSE q, item)

\* C9: publish (on the bus and on the hub) does not wait for a subscriber:
\* a task that has reached its publish can take it whatever the queues hold
\* (the cursor cap apart) and it is one step; a full queue
\* loses exactly its oldest item, and after it every subscribed queue has the
\* new item as its newest and holds at most its maximum; queues that are not
\* subscribed are left alone.
C9_PublishDropsOldest ==
    /\ []PublishNeverWaits
    /\ [][/\ BusPublishes =>
                LET item == replay'[Len(replay')]
                IN  \A s \in Streams :
                       IF s \in subscribers
                       THEN /\ queue'[s] = Enqueued(queue[s], item, QueueMaxsize)
                            /\ queue'[s][Len(queue'[s])] = item
                            /\ Len(queue'[s]) <= QueueMaxsize
                       ELSE queue'[s] = queue[s]
          /\ HubPublishes =>
                \A f \in Forwarders :
                   IF f \in hubSubscribers
                   THEN /\ \E t \in EventTypes :
                              hubQueue'[f] = Enqueued(hubQueue[f], [ts |-> hubTs', type |-> t],
                                                      MaxQueueSize)
                        /\ hubQueue'[f][Len(hubQueue'[f])].ts = hubTs'
                        /\ Len(hubQueue'[f]) <= MaxQueueSize
                   ELSE hubQueue'[f] = hubQueue[f]
          /\ \A s \in Streams : Len(queue'[s]) <= QueueMaxsize
          /\ \A f \in Forwarders : Len(hubQueue'[f]) <= MaxQueueSize]_vars

\* C9's case: a publish has just put its item into a subscriber's queue that
\* was full and has lost its oldest item for it.
C9_Witness ==
    \E s \in subscribers :
       /\ overflow[s]
       /\ Len(queue[s]) = QueueMaxsize
       /\ queue[s][Len(queue[s])].cursor = cursor
       /\ queue[s][1].cursor > 1

\* C10: the bus cursor never decreases, and the cursor a publish or an
\* allocate_cursor returns is greater than every cursor returned before.
C10_CursorMonotonic ==
    [][/\ cursor' >= cursor
       /\ issued' # issued =>
             /\ Len(issued') = Len(issued) + 1
             /\ issued'[Len(issued')] = cursor'
             /\ \A i \in 1..Len(issued) :
                   /\ issued'[i] = issued[i]
                   /\ issued[i] < issued'[Len(issued')]
       /\ (replay' # replay \/ resyncCursor' # resyncCursor) => issued' # issued]_vars

\* C10's case: an allocate_cursor between two publishes: the ring's newest
\* event and a stream's needs_resync cursor below it, itself above an earlier
\* cursor.
C10_Witness ==
    \E s \in Streams :
       /\ resyncCursor[s] > 1
       /\ replay # <<>>
       /\ replay[Len(replay)].cursor = cursor
       /\ cursor > resyncCursor[s]
       /\ Len(issued) >= 3

\* ------------------------------------------------------------------------
\* Properties of the rate limiter
\* ------------------------------------------------------------------------
RECURSIVE AdmittedIn(_, _, _)
\* The cost admitted for a key at the ticks t1 .. t2.
AdmittedIn(key, t1, t2) ==
    IF t1 > t2 THEN 0 ELSE admitted[key][t1] + AdmittedIn(key, t1 + 1, t2)

\* C11: for every key and every window of the clock, of duration T, the cost
\* of the calls the limiter admitted for the key in the window is at most
\* burst + rate * T.
C11_TokenBucketBound ==
    \A key \in LimiterKeys : \A t1, t2 \in 0..MaxMonotonic :
       t1 <= t2 => AdmittedIn(key, t1, t2) <= Burst * TokenUnit + RateUnits * (t2 - t1)

\* C11's case: a key has used up its burst and the refill of a window of two
\* ticks or more, to the last unit, and its latest call has been refused with
\* a retry hint.
C11_Witness ==
    /\ allowResult.key # None /\ ~allowResult.allowed /\ allowResult.retry_after_ms > 0
    /\ \E t1, t2 \in 0..MaxMonotonic :
          /\ t1 + 2 <= t2
          /\ admitted[allowResult.key][t2] > 0
          /\ AdmittedIn(allowResult.key, t1, t2)
                = Burst * TokenUnit + RateUnits * (t2 - t1)

\* ------------------------------------------------------------------------
\* Properties of POST /v2/actions
\* ------------------------------------------------------------------------
\* Request h carries differing request ids / idempotency keys in header and
\* body, or valid credentials.
IdsDiffer(h) == h.x_request_id # None /\ h.requestId # None /\ h.x_request_id # h.requestId
KeysDiffer(h) ==
    /\ h.idempotency_key_header # None /\ h.idempotencyKey # None
    /\ h.idempotency_key_header # h.idempotencyKey
HasCredentials(h) == h.bearer \in AuthTokens \/ h.x_api_key \in ApiKeys
\* Dispatch d is answered in this step, by the router, with this error, and
\* neither a record nor a handler run comes of it.
RejectedWith(d, status_code, code) ==
    /\ Returns(d)
    /\ IsError(returned'[1].response, status_code, code)
    /\ dpc'[d] = "done"
    /\ rows' = rows
    /\ response' = response

\* C12: on POST /v2/actions a request whose header and body request ids
\* differ (400), whose header and body idempotency keys differ (400), without
\* valid credentials (401) or refused by the limiter (429 rate_limited with
\* details.retryAfterMs) is answered at once: no idempotency record is
\* created, no handler runs; the limiter is asked, and tokens are taken, only
\* for requests with valid credentials that passed both tests, and only those
\* the limiter admits reach the dispatcher.
C12_RejectedBeforeDispatch ==
    [][\A d \in Dispatches :
          /\ (dpc[d] = "idle" /\ dpc'[d] # "idle") =>
                LET h == http'[d]
                IN  /\ IdsDiffer(h) =>
                          RejectedWith(d, 400, "request_id_mismatch")
                    /\ (~IdsDiffer(h) /\ KeysDiffer(h)) =>
                          RejectedWith(d, 400, "invalid_idempotency_key")
                    /\ (~IdsDiffer(h) /\ ~KeysDiffer(h) /\ ~HasCredentials(h)) =>
                          RejectedWith(d, 401, "unauthorized")
                    /\ (IdsDiffer(h) \/ KeysDiffer(h) \/ ~HasCredentials(h)) =>
                          /\ buckets' = buckets
                          /\ admitted' = admitted
                          /\ allowResult' = allowResult
                    /\ (~IdsDiffer(h) /\ ~KeysDiffer(h) /\ HasCredentials(h)) =>
                          IF admitted' # admitted
                          THEN /\ dpc'[d] = "admitted"
                               /\ returned' = NoReturn
                               /\ rows' = rows
                          ELSE /\ RejectedWith(d, 429, "rate_limited")
                               /\ returned'[1].response.body.error.details
                                     = [retryAfterMs |-> allowResult'.retry_after_ms]
                               /\ buckets'[h.bearer][1].tokens < TokenUnit
          /\ dpc'[d] \in {"admitted", "mip_get", "impl", "mark_completed"} =>
                /\ ~IdsDiffer(http'[d]) /\ ~KeysDiffer(http'[d]) /\ HasCredentials(http'[d])
                /\ dpc[d] # "idle" => http'[d] = http[d]
          /\ (rows' # rows \/ response' # response) =>
                \E e \in Dispatches :
                   /\ dpc[e] \in {"admitted", "mip_get", "impl", "mark_completed"}
                   /\ dpc'[e] # dpc[e]
                   /\ HasCredentials(http[e])]_vars

\* C12's case: a request with valid credentials and matching ids has just
\* been refused by the limiter, 429 with a Retry-After header, while no
\* idempotency record exists.
C12_Witness ==
    /\ returned # NoReturn
    /\ IsError(returned[1].response, 429, "rate_limited")
    /\ returned[1].response.body.error.details.retryAfterMs > 0
    /\ \E v \in {"1", "2"} : <<"Retry-After", v>> \in returned[1].response.headers
    /\ http[returned[1].dispatch].idempotencyKey # None
    /\ \A k \in RowKeys : rows[k].status = "absent"

\* ------------------------------------------------------------------------
\* Properties of the inventory store
\* ------------------------------------------------------------------------
\* The rows derivable from resources: one per resource whose normalized name
\* is not empty.
DerivedIndex ==
    {<<resources[rid].rtype, name_norm(resources[rid].name[1]), rid>> :
        rid \in {r \in Rids : /\ resources[r] # NoResource
                             /\ resources[r].name # Null
                             /\ name_norm(resources[r].name[1]) # <<>>}}

\* C13: whenever no store operation is under way, name_index holds exactly
\* one row (rtype, name_norm, rid) for each stored resource whose normalized
\* name is not empty, and no other row.
C13_IndexDerivable ==
    (syncpc = "idle" /\ eventpc = "idle") => name_index = DerivedIndex

\* C14: a read of the index (list_name_candidates) taken while
\* rebuild_name_index is under way returns the complete index of before the
\* rebuild or the complete rebuilt index, never an empty or partial one.
C14_RebuildAtomic ==
    [][(candidates' # candidates /\ candidates'.rebuilding) =>
          candidates'.rows \in {CandidatesOf(indexBefore, candidates'.rtype),
                                CandidatesOf(DerivedIndex, candidates'.rtype)}]_vars

\* ------------------------------------------------------------------------
\* Properties of name resolution
\* ------------------------------------------------------------------------
\* The best score, and the score of the runner-up (0 with one candidate).
BestScore == CHOOSE b \in {scores[i] : i \in DOMAIN scores} :
                \A i \in DOMAIN scores : scores[i] <= b
Holders(b) == {i \in DOMAIN scores : scores[i] = b}
RunnerUpScore ==
    IF Len(scores) = 1 THEN 0
    ELSE IF Cardinality(Holders(BestScore)) > 1 THEN BestScore
    ELSE CHOOSE r \in {scores[i] : i \in DOMAIN scores \ Holders(BestScore)} :
            \A i \in DOMAIN scores \ Holders(BestScore) : scores[i] <= r
Tie == Len(scores) >= 2 /\ RunnerUpScore = BestScore
Ambiguous ==
    /\ resolved.kind = "error"
    /\ resolved.status_code = 409
    /\ resolved.code = "ambiguous_name"
Listed == {resolved.candidates[i].rid : i \in DOMAIN resolved.candidates}

\* C15 as the specification states it: whenever the two best candidates
\* have the same score, the resolution fails with 409 ambiguous_name.
C15_AsStated ==
    (resolved # NotResolved /\ Tie) => Ambiguous

\* C15: when the two best candidates have the same score, that score is
\* below the autopick threshold and the margin is positive, the resolution
\* (v1 and v2) fails with 409 ambiguous_name, lists candidates with the tied
\* score, and returns no resource.  A tie at or above the autopick threshold
\* returns the first of the tied candidates.
C15_TieBelowAutopick ==
    (resolved # NotResolved /\ Tie) =>
        IF BestScore >= config.fuzzy_match_autopick_threshold
        THEN /\ resolved.kind = "resolved"
             /\ resolved.rid \in Holders(BestScore)
             /\ \A i \in Holders(BestScore) : resolved.rid <= i
        ELSE config.fuzzy_match_margin > 0 =>
                /\ Ambiguous
                /\ Len(resolved.candidates) >= 2
                /\ resolved.candidates[1].confidence = BestScore
                /\ resolved.candidates[2].confidence = BestScore
                /\ {resolved.candidates[1].rid, resolved.candidates[2].rid}
                      \subseteq Holders(BestScore)

\* C15's case: two candidates tie at a score that passes the match
\* threshold, below the autopick threshold, and the resolution is refused.
C15_Witness ==
    /\ resolved # NotResolved
    /\ Tie
    /\ BestScore >= config.fuzzy_match_threshold
    /\ BestScore < config.fuzzy_match_autopick_threshold
    /\ config.fuzzy_match_margin > 0
    /\ Ambiguous

\* C16: over a non-empty candidate set the resolution returns the best
\* candidate exactly when best >= autopick_threshold, or best >=
\* match_threshold and best - second >= margin (second = 0 with one
\* candidate); otherwise it fails with 409 ambiguous_name carrying at most
\* five candidates, the top-scoring ones in descending order of score; over
\* an empty set it fails with 404 not_found.
C16_DecisionTree ==
    resolved # NotResolved =>
        IF Len(scores) = 0
        THEN /\ resolved.kind = "error"
             /\ resolved.status_code = 404
             /\ resolved.code = "not_found"
        ELSE IF \/ BestScore >= config.fuzzy_match_autopick_threshold
                \/ /\ BestScore >= config.fuzzy_match_threshold
                   /\ BestScore - RunnerUpScore >= config.fuzzy_match_margin
        THEN /\ resolved.kind = "resolved"
             /\ resolved.rid \in Holders(BestScore)
             /\ resolved.confidence = BestScore
        ELSE /\ Ambiguous
             /\ Len(resolved.candidates) = Min(5, Len(scores))
             /\ \A i \in DOMAIN resolved.candidates :
                   /\ resolved.candidates[i].rid \in DOMAIN scores
                   /\ resolved.candidates[i].confidence
                         = scores[resolved.candidates[i].rid]
                   /\ \A j \in DOMAIN resolved.candidates :
                         /\ i < j => resolved.candidates[i].confidence
                                        >= resolved.candidates[j].confidence
                         /\ i # j => resolved.candidates[i].rid
                                        # resolved.candidates[j].rid
                   /\ \A k \in DOMAIN scores \ Listed :
                         scores[k] <= resolved.candidates[i].confidence

\* C16's case: more than five candidates, none confident enough, and the
\* five best are listed.
C16_Witness ==
    /\ resolved # NotResolved
    /\ Len(scores) > 5
    /\ Ambiguous
    /\ Len(resolved.candidates) = 5
    /\ \E k \in DOMAIN scores \ Listed : scores[k] < resolved.candidates[5].confidence

\* ------------------------------------------------------------------------
\* Properties of the calls of the appliance
\* ------------------------------------------------------------------------
IsClip == hcall # NoCall /\ hcall.action = "clipv2.request"
Refused == hpc = "done" /\ hresult.status_code = 400 /\ requests = 0

\* C17: a clipv2.request (v1 or v2) sends an HTTP request to the appliance
\* only if args.path begins with /clip/v2/; any other path is answered with
\* a 400 error and no request is sent.
C17_ClipPrefixOnly ==
    IsClip =>
        /\ (requests > 0 \/ hpc = "request") => startswith(hcall.path, ClipPrefix)
        /\ ~startswith(hcall.path, ClipPrefix) => Refused

\* C17's case: a path that holds clip/v2/ behind other text, with an allowed
\* method and no body, has been refused.
C17_Witness ==
    /\ IsClip
    /\ Refused
    /\ hcall.method \in AllowedMethods
    /\ hcall.body = "none"
    /\ ~startswith(hcall.path, ClipPrefix)
    /\ Contains(hcall.path, <<"clip/v2", "/">>)

\* C18: a clipv2.request whose path contains //, :// or .. anywhere, or whose
\* method is not one of the allowed verbs, is refused with a 400 error and
\* no request is sent to the appliance.
C18_RejectsHostOverride ==
    (/\ IsClip
     /\ \/ Contains(hcall.path, <<"/", "/">>)
        \/ Contains(hcall.path, <<":", "/", "/">>)
        \/ Contains(hcall.path, <<".", ".">>)
        \/ hcall.method \notin AllowedMethods) => Refused

\* C19: a dispatch that writes to the appliance (clipv2.request with POST,
\* PUT or DELETE, the set and activate actions, bridge.pair) sends at most
\* one HTTP request, whatever the appliance answers; a clipv2.request with
\* GET, HEAD or OPTIONS sends at most retry_max_attempts requests.
C19_WritesSentOnce ==
    hcall # NoCall =>
        /\ requests <= RetryMaxAttempts
        /\ (hcall.action \in WriteActions \/ hcall.method \in {"POST", "PUT", "DELETE"})
              => /\ requests <= 1
                 /\ (requests = 1 => hpc = "done")
        /\ requests > 1 => IsClip /\ hcall.method \in {"GET", "HEAD", "OPTIONS"}

\* C19's case: the appliance answered the only request of a set or activate
\* action with an error, and the dispatch is over.
C19_Witness ==
    /\ hpc = "done"
    /\ hcall.action \in WriteActions \ {"bridge.pair"}
    /\ requests = 1
    /\ hresult.status_code = 502

\* ------------------------------------------------------------------------
\* Properties of actions.batch
\* ------------------------------------------------------------------------
\* The positions, in the history, of the steps that failed.
Failures == {k \in DOMAIN executed : executed[k].response.status_code >= 400}
FirstFailure == CHOOSE k \in Failures : \A j \in Failures : k <= j

\* C20: with continueOnError = false the steps are executed in list order
\* and none is executed after a step whose status is >= 400; the response
\* then carries that step's status, ok = false, that step's error code,
\* details.failedStepIndex = its index and details.steps = the steps
\* executed, failedStepIndex + 1 of them; when no step fails the response is
\* 200, ok = true, with the results of all steps.
C20_StopOnError ==
    (bpc # "idle" /\ ~continue_on_error) =>
        /\ \A k \in DOMAIN executed :
              /\ executed[k].index = k - 1
              /\ k < Len(executed) => executed[k].response.status_code < 400
        /\ Len(executed) <= Len(steps)
        /\ bpc = "done" =>
              /\ Len(batch_response.steps) = Len(executed)
              /\ \A k \in DOMAIN executed :
                    /\ batch_response.steps[k].index = k - 1
                    /\ batch_response.steps[k].action = steps[k]
                    /\ batch_response.steps[k].status
                          = executed[k].response.status_code
              /\ IF Failures = {}
                 THEN /\ Len(executed) = Len(steps)
                      /\ batch_response.status_code = 200
                      /\ batch_response.ok
                 ELSE /\ Len(executed) = FirstFailure
                      /\ batch_response.status_code
                            = executed[FirstFailure].response.status_code
                      /\ ~batch_response.ok
                      /\ batch_response.code = executed[FirstFailure].response.code
                      /\ batch_response.failedStepIndex = <<FirstFailure - 1>>
                      /\ Len(batch_response.steps) = FirstFailure
        /\ ~(bpc = "loop" /\ Failures # {})

\* C20's case: the second of three steps failed, the third was not
\* executed, and the response carries two step results.
C20_Witness ==
    /\ bpc = "done"
    /\ ~continue_on_error
    /\ Len(steps) = 3
    /\ Len(executed) = 2
    /\ batch_response.status_code = 404
    /\ batch_response.failedStepIndex = <<1>>
    /\ Len(batch_response.steps) = 2

\* C21: with continueOnError = true every step is executed, in list order,
\* whatever the earlier steps answered, and the response is 207 with
\* ok = true and one result per step, in step order, each with that step's
\* own ok flag and status.
C21_ContinueOnError ==
    (bpc # "idle" /\ continue_on_error) =>
        /\ \A k \in DOMAIN executed : executed[k].index = k - 1
        /\ Len(executed) <= Len(steps)
        /\ bpc = "loop" => Len(executed) < Len(steps)
        /\ bpc = "done" =>
              /\ Len(executed) = Len(steps)
              /\ batch_response.status_code = 207
              /\ batch_response.ok
              /\ Len(batch_response.steps) = Len(steps)
              /\ \A k \in DOMAIN steps :
                    /\ batch_response.steps[k].index = k - 1
                    /\ batch_response.steps[k].action = steps[k]
                    /\ batch_response.steps[k].ok = executed[k].response.ok
                    /\ batch_response.steps[k].status
                          = executed[k].response.status_code

\* C21's case: the first of three steps failed, the two later ones were
\* executed all the same, one of them with success, and the answer is 207.
C21_Witness ==
    /\ bpc = "done"
    /\ continue_on_error
    /\ Len(steps) = 3
    /\ executed[1].response.status_code = 404
    /\ executed[2].response.status_code = 200
    /\ executed[3].response.status_code = 424
    /\ batch_response.status_code = 207
    /\ ~batch_response.steps[3].ok

\* C22: in both dispatchers a handler that fails with an appliance
\* transport error is answered 424 bridge_unreachable, with appliance status
\* 429 it is answered 429 bridge_rate_limited, with any other appliance
\* status of 400 or more 502 bridge_error, and with any other exception
\* 500 internal_error whose details.error carries the exception's message.
C22_ErrorMapping ==
    epc = "done" =>
        /\ raised.kind = "HueTransportError" =>
              /\ envelope.status_code = 424
              /\ envelope.code = "bridge_unreachable"
        /\ (raised.kind = "HueUpstreamError" /\ raised.status_code = 429) =>
              /\ envelope.status_code = 429
              /\ envelope.code = "bridge_rate_limited"
        /\ (raised.kind = "HueUpstreamError" /\ raised.status_code # 429
                /\ raised.status_code >= 400) =>
              /\ envelope.status_code = 502
              /\ envelope.code = "bridge_error"
        /\ raised.kind = "Exception" =>
              /\ envelope.status_code = 500
              /\ envelope.code = "internal_error"
              /\ envelope.details.error = <<raised.message>>

\* The answer's first entry is a success entry carrying a username.
C23_IsSuccess ==
    /\ pair_answer.shape = "entry"
    /\ ~pair_answer.has_error
    /\ pair_answer.has_success
    /\ pair_answer.success_is_dict
    /\ pair_answer.username.json = "str"

\* The answer's first entry is an error entry of type 101.
C23_IsLinkButton ==
    /\ pair_answer.shape = "entry"
    /\ pair_answer.has_error
    /\ pair_answer.error_is_dict
    /\ pair_answer.type \in {JsonInt(101), JsonStr("101")}

\* C23: bridge.pair stores application_key and reconfigures the client only
\* when the appliance answers with a success entry carrying username K, and
\* then the stored key and result.applicationKey are K; an error entry of
\* type 101 is answered 409 link_button_not_pressed and any other answer
\* 502, and in both failure cases the stored key and the client's key are
\* as they were.
C23_Pairing ==
    ppc = "done" =>
        /\ C23_IsSuccess =>
              /\ pair_response.envelope.status_code = 200
              /\ setting_application_key = <<pair_answer.username.str>>
              /\ hue_application_key = <<pair_answer.username.str>>
              /\ pair_response.applicationKey = <<pair_answer.username.str>>
        /\ C23_IsLinkButton =>
              /\ pair_response.envelope.status_code = 409
              /\ pair_response.envelope.code = "link_button_not_pressed"
        /\ (~C23_IsSuccess /\ ~C23_IsLinkButton) =>
              pair_response.envelope.status_code = 502
        /\ ~C23_IsSuccess =>
              <<setting_application_key, hue_application_key>> = key_before

\* C24: inventory_revision is bumped whenever a resource is created, deleted
\* or renamed, so that inventory.snapshot(ifRevision = r) answers
\* notModified only if the resources are what they were when revision r was
\* reported to the client.
C24_NotModifiedOnlyIfUnchanged ==
    (inventory_result.served /\ inventory_result.notModified
        /\ reported[inventory_result.revision] # Null) =>
            reported[inventory_result.revision] = <<inventory_result.table>>

\* The timeout the client asked for: timeoutMs, or the default without one.
C25_RequestedTimeout ==
    IF vreq.verify.timeoutMs = Null
    THEN IF vreq.implicit_verify THEN 2500 ELSE 2000
    ELSE vreq.verify.timeoutMs[1]

\* The state the latest GET returned matches the applied state: on exactly,
\* brightness within 5 (25 for grouped targets), colorTempK within 200
\* (800), xy at a distance of at most 0.15.
C25_Matches ==
    LET a == vreq.applied
        o == vhistory.state
        grouped == vreq.target_rtype # "light"
    IN  /\ vhistory.answer = "data"
        /\ a.on # Null => o.on = a.on
        /\ a.brightness # Null =>
              /\ o.brightness # Null
              /\ Abs(o.brightness[1] - a.brightness[1]) <= (IF grouped THEN 25 ELSE 5)
        /\ a.colorTempK # Null =>
              /\ o.colorTempK # Null
              /\ Abs(o.colorTempK[1] - a.colorTempK[1]) <= (IF grouped THEN 800 ELSE 200)
        /\ a.xy # Null =>
              /\ o.xy # Null
              /\ (o.xy[1].x - a.xy[1].x) * (o.xy[1].x - a.xy[1].x)
                    + (o.xy[1].y - a.xy[1].y) * (o.xy[1].y - a.xy[1].y) <= 15 * 15

\* C25 (first part): the PUT is sent before any verification GET, and the
\* result has verified = true only if a poll observed a matching state.
C25_VerifiedOnlyIfMatched ==
    /\ vhistory.get_seen => vhistory.put_sent
    /\ (vpc = "done" /\ set_result.verified) => C25_Matches

\* C25 (second part): when the deadline passes without a match the result
\* has verified = false and a verify_mismatch warning with the last
\* mismatches.
C25_TimeoutWarns ==
    (vpc = "done" /\ set_result.status_code = 200 /\ vreq.verify.mode = "poll"
        /\ ~set_result.verified) =>
            /\ "verify_mismatch" \in set_result.warnings
            /\ last_observed # Null
            /\ set_result.mismatches
                  = compare_state(vreq.applied, last_observed[1],
                                  vreq.target_rtype, VerifyXy(vreq))

\* C25 (third part): polling ends once timeoutMs has elapsed: no GET is
\* sent later than timeoutMs after the polling started.
C25_PollingEnds ==
    vhistory.get_seen =>
        vhistory.get_sent <= vhistory.poll_started + C25_RequestedTimeout

\* C25: a state change with verification sends the PUT before any GET,
\* reports verified = true only if a poll before the deadline observed a
\* matching state, reports verified = false with a verify_mismatch warning
\* carrying the last mismatches when the deadline passes without a match,
\* and stops polling once timeoutMs has elapsed.
C25_Verification ==
    /\ C25_VerifiedOnlyIfMatched
    /\ C25_TimeoutWarns
    /\ C25_PollingEnds

\* C26: for every numeric brightness a state-setting action accepts, the
\* brightness sent to the appliance lies in [0.1, 100.0] and is never 0,
\* and v2 reports a clamped warning exactly when the value sent differs
\* from the value requested.
C26_BrightnessRange ==
    (light_payload.status_code = 200 /\ light_call.brightness.json = "number") =>
        /\ light_payload.brightness # Null
        /\ light_payload.brightness[1] >= 2
        /\ light_payload.brightness[1] <= 2000
        /\ light_call.api = "v2" =>
              ("clamped" \in light_payload.warnings
                  <=> light_payload.brightness[1] # light_call.brightness.n)

\* The caller of dispatch d in a step: the one it starts with, or the one
\* it is running for.
C27_CallerOf(d) == IF dpc[d] = "idle" THEN req'[d].auth ELSE req[d].auth

\* C27: idempotency records are scoped by credential. A dispatch that finds
\* a record under its key (and answers with a replay, in_progress or a
\* mismatch) finds one that a dispatch of the same scheme and credential
\* inserted, and a row changes only in a step of a dispatch of the caller
\* who inserted it.
C27_ScopedByCredential ==
    /\ [](\A d \in Dispatches :
            (dpc[d] = "mip_get" /\ ~inserted[d]) =>
                creator[KeyOf(d)] = <<req[d].auth>>)
    /\ [][\A k \in RowKeys :
            rows'[k] # rows[k] =>
                \E d \in Dispatches :
                    /\ dpc'[d] # dpc[d]
                    /\ creator'[k] = <<C27_CallerOf(d)>>]_vars

\* C27's case: the same key holds a completed record of the bearer token
\* and one of the same string used as an API key, for different requests.
C27_Witness ==
    LET kb == RowKey(credential_fingerprint([scheme |-> "bearer",
                                             credential |-> "dev-token"]), "k1")
        ka == RowKey(credential_fingerprint([scheme |-> "api_key",
                                             credential |-> "dev-token"]), "k1")
    IN  /\ kb # ka
        /\ rows[kb].status = "completed"
        /\ rows[ka].status = "completed"
        /\ rows[kb].request_hash # rows[ka].request_hash
        /\ creator[kb] # creator[ka]

\* Dispatch d inserted the in_progress record under its key and is
\* executing its handler.
C28_Executing(d) ==
    /\ dpc[d] = "impl"
    /\ req[d].idempotency_key # None
    /\ inserted[d]

\* C28: while the request that inserted an in_progress record is executing
\* its handler, no cleanup run (the expiry sweep or the row cap) removes the
\* record, and so no second request with the same key runs the handler
\* while the first is executing.
C28_InProgressKept ==
    /\ [][\A d \in Dispatches :
            (C28_Executing(d) /\ rows[KeyOf(d)].status = "in_progress") =>
                rows'[KeyOf(d)].status # "absent"]_vars
    /\ [](\A d, e \in Dispatches :
            (d # e /\ C28_Executing(d) /\ C28_Executing(e)) => KeyOf(d) # KeyOf(e))

\* C29: the writes of the snapshot and of the event task for one resource
\* are serialized: the data held in the store and in the cache is never
\* older than data already written for the resource.
C29_NeverOlder ==
    /\ store_row # Null => store_row[1] >= newest_written
    /\ cache_entry # Null => cache_entry[1] >= newest_written

\* C30: when sync_core_resources has completed without error (and the event
\* task has written nothing since the list was fetched), store and cache
\* hold exactly what the appliance listed: a listed resource with the
\* listed data, and no row in the store, the name index or the cache for a
\* resource that is not listed.
C30_ExactlyListed ==
    (mpc = "complete" /\ ~event_wrote) =>
        /\ store_row = listed
        /\ cache_entry = listed
        /\ index_row = (listed # Null)

\* ------------------------------------------------------------------------
\* Properties of the event task's handling of a message
\* ------------------------------------------------------------------------
\* This step publishes an event of this type on the hub.
Publishes(type) ==
    /\ hub_published' = hub_published + 1
    /\ hub_event'[1].type = type

\* C31, the delete half: resource.deleted is published for a reference of a
\* delete or remove event, and when it is published the resource is gone
\* from the store, from the name index and from the cache.
C31_DeletedReflected ==
    [][Publishes("resource.deleted") =>
          LET rid == hub_event'[1].rid
          IN  /\ Head(events).type \in {"delete", "remove"}
              /\ Head(events).rid = rid
              /\ tab_resources'[rid] = NoResource
              /\ RowsOf(tab_index', rid) = {}
              /\ by_rid'[rid] = NoResource]_vars

\* C31, the other half: resource.updated is published for a reference of
\* any other event, and when it is published store and cache hold the
\* re-fetched resource and the name index holds for the rid the row of its
\* normalized name and no other.
C31_UpdatedReflected ==
    [][Publishes("resource.updated") =>
          LET rid == hub_event'[1].rid
          IN  /\ Head(events).type \notin {"delete", "remove"}
              /\ Head(events).rid = rid
              /\ resource # NoResource
              /\ tab_resources'[rid] = resource
              /\ by_rid'[rid] = resource
              /\ RowsOf(tab_index', rid) =
                    IF HasNameNorm(resource.name)
                    THEN {<<resource.rtype, name_norm(resource.name[1]), rid>>}
                    ELSE {}]_vars

\* C31: the handling of a reference touches the rows of its rid only.
C31_ThatRidOnly ==
    [][\A rid \in Rids :
          (events # <<>> /\ Head(events).rid # rid) =>
              /\ tab_resources'[rid] = tab_resources[rid]
              /\ RowsOf(tab_index', rid) = RowsOf(tab_index, rid)
              /\ by_rid'[rid] = by_rid[rid]]_vars

\* C31: between two messages, every reference of the messages ingested so
\* far has had its event published.
C31_EveryRefPublished == ingpc = "idle" => hub_published = refs_ingested

\* C31: for each (rid, rtype) referenced by an ingested event, a delete or
\* remove event removes the resource from store, name index and cache and
\* then publishes resource.deleted; any other event re-fetches the resource,
\* upserts store and cache, replaces the name-index rows of that rid only
\* and then publishes resource.updated; the event is published only after
\* store and cache reflect the change.
C31_EventHandling ==
    /\ []C31_EveryRefPublished
    /\ C31_DeletedReflected
    /\ C31_UpdatedReflected
    /\ C31_ThatRidOnly

\* ------------------------------------------------------------------------
\* Properties of the appliance's address and key
\* ------------------------------------------------------------------------
\* C32: with HUE_BRIDGE_HOST unset, after any sequence of successful
\* bridge.set_host and bridge.pair actions and bootstrap iterations, the
\* client's host is the value most recently stored under bridge_host; a
\* bootstrap iteration never sets the client back to an earlier host.
C32_ClientHostIsStored ==
    (bootpc # "start" /\ settings.bridge_host # Null) =>
        client.bridge_host = settings.bridge_host

\* ------------------------------------------------------------------------
\* Properties of the background tasks
\* ------------------------------------------------------------------------
\* C33: no background task stops because of a store or appliance failure:
\* after any such error the task is still running; only the cancellation
\* at shutdown ends it.
C33_TasksSurviveFailures ==
    \A t \in Tasks : task_status[t] \in {"running", "cancelled"}

\* ------------------------------------------------------------------------
\* Properties of the subscriptions
\* ------------------------------------------------------------------------
\* C34: every subscription made for an event stream or by the forwarder is
\* removed from the subscriber set when its stream ends or its task is
\* cancelled, a client that disconnects before the first frame included:
\* the subscriber set never holds the queue of an ended stream.
C34_EndedNotSubscribed ==
    /\ \A s \in Streams : spc[s] = "closed" => s \notin subscribers
    /\ \A f \in Forwarders : fpc[f] = "cancelled" => f \notin hubSubscribers

\* ------------------------------------------------------------------------
\* Properties of the resumption of a v2 stream
\* ------------------------------------------------------------------------
\* The cursors that V2EventBus.publish has given to events: those issued
\* less those that allocate_cursor gave to needs_resync frames.
PublishedCursors ==
    {issued[i] : i \in DOMAIN issued} \ {resyncCursor[s] : s \in Streams}
\* No published event has left the ring.
NothingEvicted == PublishedCursors \subseteq Cursors(replay)
\* Stream s has ended and the last frame its client received has this id.
EndedWith(s, id) ==
    /\ spc[s] = "closed"
    /\ frames[s] # <<>>
    /\ frames[s][Len(frames[s])].eventId = id
\* Stream t's _gen starts in this step, with the Last-Event-ID that the
\* client of an ended stream received last.
Resumes(t) ==
    /\ spc[t] = "gen" /\ spc'[t] # "gen"
    /\ last_cursor[t] # Null
    /\ \E s \in Streams \ {t} : EndedWith(s, last_cursor[t][1])

\* C35: a client that reconnects with the eventId of the last frame it
\* received, a needs_resync frame included, while nothing has been evicted
\* from the ring, is resumed by replay of the events after that id and gets
\* no further needs_resync frame.
C35_ResumedByReplay ==
    [][\A t \in Streams :
          (Resumes(t) /\ NothingEvicted) =>
              /\ spc'[t] # "resync"
              /\ replayBuf'[t] = After(replay, last_cursor[t][1])]_vars

LastAnswer == rj_answers[Len(rj_answers)]

\* C37: at most max_attempts HTTP attempts with retry, exactly one without.
C37_AttemptsBounded ==
    /\ rj_retry => Len(rj_answers) <= rj_max_attempts
    /\ (~rj_retry /\ rjpc # "idle") => Len(rj_answers) <= 1
    /\ (~rj_retry /\ rjpc = "done") => Len(rj_answers) = 1

\* C37: a further attempt follows only a transport error or a response of
\* status 429 or 5xx.
C37_ReattemptOnlyAfter ==
    \A i \in 1..(Len(rj_answers) - 1) :
        \/ rj_answers[i].raised = "transport"
        \/ /\ rj_answers[i].raised = ""
           /\ \/ rj_answers[i].status = 429
              \/ (500 <= rj_answers[i].status /\ rj_answers[i].status <= 599)

\* C37: the call ends returning the first response with status < 400, or
\* raising transport_error or upstream_error for the last failed attempt.
C37_Outcome ==
    rjpc = "done" =>
        /\ rj_answers # <<>>
        /\ \/ /\ rj_outcome.kind = "HueJSONishResult"
              /\ LastAnswer.raised = "" /\ LastAnswer.status < 400
              /\ rj_outcome.answer = LastAnswer.status
           \/ /\ rj_outcome.kind = "HueTransportError"
              /\ LastAnswer.raised = "transport"
           \/ /\ rj_outcome.kind = "HueUpstreamError"
              /\ LastAnswer.raised = "" /\ LastAnswer.status >= 400
              /\ rj_outcome.answer = LastAnswer.status

\* C37: request_jsonish makes at most max_attempts HTTP attempts when
\* retry=true and exactly one when retry=false; it re-attempts only after a
\* transport error or a response of status 429 or 5xx, never after another
\* 4xx; it ends returning the first response with status < 400 or raising
\* transport_error / upstream_error for the last failed attempt.
C37_RequestJsonish ==
    /\ C37_AttemptsBounded
    /\ C37_ReattemptOnlyAfter
    /\ C37_Outcome

\* ------------------------------------------------------------------------
\* cleanup_expired (v2/idempotency.py)
\* ------------------------------------------------------------------------
\* cleanup_expired returns: from the count when the table is within the cap,
\* from the cap delete otherwise (the commit follows either).
CleanupReturns == cpc \in {"count", "cap"} /\ cpc' = "sleep"

\* The expiry sweep leaves no row with expires_at <= now.
C38_NoExpiredRemains ==
    [][(cpc = "sleep" /\ cpc' = "count")
         => \A k \in Present(rows') : rows'[k].expires_at > now]_vars

\* When cleanup_expired returns, the row count is at most max_rows.
C38_WithinCap ==
    [][CleanupReturns => Cardinality(Present(rows')) <= MaxRows]_vars

\* The rows removed for the cap are those with the smallest updated_at.
C38_OldestRemoved ==
    [][(cpc = "cap" /\ cpc' = "sleep")
         => LET removed == Present(rows) \ Present(rows')
            IN  /\ \A r \in removed, k \in Present(rows') :
                      rows[r].updated_at <= rows[k].updated_at
                /\ \A k \in Present(rows') : rows'[k] = rows[k]]_vars

\* No row is removed by the call once the count is within the cap.
C38_NoneRemovedWithinCap ==
    [][(cpc = "count" /\ cpc' = "sleep") => rows' = rows]_vars

\* C38: when cleanup_expired(max_rows) returns, no idempotency row with
\* expires_at <= now remains and the row count is at most max_rows; the rows
\* removed for the cap are those with the smallest updated_at, and no
\* unexpired row is removed while the count is within the cap.
C38_CleanupPostcondition ==
    /\ C38_NoExpiredRemains
    /\ C38_WithinCap
    /\ C38_OldestRemoved
    /\ C38_NoneRemovedWithinCap

\* ------------------------------------------------------------------------
\* An in_progress record whose request never completes
\* ------------------------------------------------------------------------
\* The expires_at values the clock of a run reaches.
ExpiryTimes == { i * Max(1, TtlSeconds) : i \in 1..MaxTicks }

\* A request identical to an in_progress record that reads it is answered
\* 409 idempotency_in_progress, for as long as the record is there.
C39_BlockedWhileThere ==
    [][\A d \in Dispatches :
          (ReadsRecord(d) /\ ~inserted[d] /\ rows[KeyOf(d)].status = "in_progress"
             /\ SameRequest(d, rows[KeyOf(d)]))
          => (Returns(d)
              /\ IsError(returned'[1].response, 409, "idempotency_in_progress"))]_vars

\* An in_progress record is gone (or was completed after all, with a later
\* expires_at) some time after its expires_at: whatever its request does.
C39_EventuallyDeleted ==
    \A k \in RowKeys, e \in ExpiryTimes :
       (rows[k].status = "in_progress" /\ rows[k].expires_at = e)
          ~> (rows[k].status = "absent" \/ rows[k].expires_at > e)

\* A request whose key has no record claims it.
C39_ClaimsFreeKey ==
    [][\A d \in Dispatches :
          (dpc[d] = "idle" /\ dpc'[d] = "mip_get") =>
             LET k == RowKey(credential_fingerprint(req'[d].auth),
                             req'[d].idempotency_key)
             IN  rows[k].status = "absent"
                    => inserted'[d] /\ rows'[k].status = "in_progress"
                       /\ rows'[k].created_at = now]_vars

\* C39: an in_progress record of a request that never completes does not
\* block its key for ever: identical requests are answered
\* idempotency_in_progress while the record is there; once its TTL has
\* passed the cleanup loop eventually deletes it, and a request with the
\* same key then claims it.
C39_NotBlockedForever ==
    /\ C39_BlockedWhileThere
    /\ C39_EventuallyDeleted
    /\ C39_ClaimsFreeKey

\* C39's case: dispatch d is still in its handler, its record was deleted
\* after the TTL, and dispatch e has claimed the same key anew.
C39_Witness ==
    \E d, e \in Dispatches :
       /\ d # e
       /\ dpc[d] = "impl" /\ inserted[d]
       /\ dpc[e] = "mip_get" /\ inserted[e]
       /\ KeyOf(d) = KeyOf(e)
       /\ now >= Max(1, TtlSeconds)
       /\ rows[KeyOf(e)].status = "in_progress"
       /\ rows[KeyOf(e)].created_at = now

\* ------------------------------------------------------------------------
\* ResourceCache (cache.py)
\* ------------------------------------------------------------------------
\* The forward map holds the rid with this rtype and this name_norm.
Forward(rid, rtype, norm) ==
    /\ cache_by_rid[rid] # NoCached
    /\ cache_by_rid[rid].rtype = rtype
    /\ cache_by_rid[rid].name_norm = norm

\* C40: after any sequence of upsert and delete calls, a rid is in the
\* inverted index under (rtype, name_norm) if and only if the forward map
\* holds that rid with exactly that rtype and that non-empty name_norm: a
\* rename, an rtype change or a delete leaves no entry for the rid under its
\* old key.
C40_IndexIffForward ==
    \A rid \in Rids, key \in IndexKeys :
       rid \in name_to_rids[key] <=> Forward(rid, key[1], key[2])

\* C40's case: a named resource was renamed and moved to another rtype, its
\* namesake was deleted, and the index holds the one entry of the present key.
C40_Witness ==
    \E rid \in Rids, key \in IndexKeys, old \in IndexKeys :
       /\ old[1] # key[1] /\ old[2] # key[2]
       /\ <<old, rid>> \in indexed_before
       /\ Entries(name_to_rids) = {<<key, rid>>}
       /\ \E gone \in Rids \ {rid} :
             /\ <<old, gone>> \in indexed_before
             /\ cache_by_rid[gone] = NoCached

====
